---- MODULE Spec2Model ----
(***************************************************************************)
(* A model of cslb, the client-side load balancer for net/http: the SRV    *)
(* view, the health cache, the selector bestTarget and the dial            *)
(* orchestrator dialContext / dialIterate.                                 *)
(*                                                                         *)
(* Time is a natural number of abstract clock units; the zero time.Time is *)
(* 0 and the clock starts at 1.  A health-store key "host:port" is the     *)
(* pair <<host, port>>.  The reporting-only fields of ceHealth             *)
(* (lastDialAttempt, lastHealthCheck, lastHealthCheckStatus, url) and the  *)
(* advisory ceSRV.lookups counter are read by no operation modelled here   *)
(* and are left out.                                                       *)
(***************************************************************************)
EXTENDS Integers, Sequences, FiniteSets, TLC

(***************************************************************************)
(* Bounds of the model.                                                    *)
(***************************************************************************)
MaxTime == 5          \* the clock stops advancing here
MaxOtherDials == 2    \* dial outcomes recorded by callers other than the tracked dial

(***************************************************************************)
(* Configuration (cslb.go), in clock units.                                *)
(***************************************************************************)
DialVetoDuration == 2
InterceptTimeout == 2
HealthTTL == 3
FoundSRVTTL == 3
NotFoundSRVTTL == 4
smallChanceMultiplier == 1000

zeroTime == 0
IsZero(t) == t = zeroTime

(***************************************************************************)
(* The SRV view: ceSRV -> cePriority -> ceTarget.                          *)
(***************************************************************************)
ceTarget(target, port, weight) == [weight |-> weight, port |-> port, target |-> target]

RECURSIVE sumWeights(_)
sumWeights(targets) ==
  IF targets = <<>> THEN 0 ELSE Head(targets).weight + sumWeights(Tail(targets))

cePriority(priority, targets) ==
  [priority |-> priority, totalWeight |-> sumWeights(targets), targets |-> targets]

makeHealthStoreKey(host, port) == <<host, port>>

healthStoreKey(cet) == makeHealthStoreKey(cet.target, cet.port)

uniqueTargetKeys(priorities) ==
  UNION { { healthStoreKey(priorities[g].targets[i]) : i \in 1..Len(priorities[g].targets) } :
          g \in 1..Len(priorities) }

\* The view held before any lookup: no priorities, no targets.
emptySRV == [expires |-> zeroTime, priorities |-> <<>>, uniqueTargetCount |-> 0]

uniqueTargets(cesrv) == cesrv.uniqueTargetCount

(***************************************************************************)
(* populate: the resolver's net.SRV records are sorted by priority, the    *)
(* records with an empty target dropped, the others grouped by priority    *)
(* with weight 1000 * Weight, and the zero weights of a group replaced by  *)
(* verySmall.  Target names are strings; strings.ToLower is modelled on    *)
(* the names the model uses.                                               *)
(***************************************************************************)
netSRV(target, port, priority, weight) ==
  [Target |-> target, Port |-> port, Priority |-> priority, Weight |-> weight]

ToLowerName(name) ==
  CASE name = "S1" -> "s1"
    [] name = "S2" -> "s2"
    [] name = "S3" -> "s3"
    [] OTHER -> name

\* sort.Slice on a short slice is an insertion sort: records of equal
\* priority keep the resolver's order.
RECURSIVE insertByPriority(_, _)
insertByPriority(sorted, srv) ==
  IF sorted = <<>> THEN <<srv>>
  ELSE IF srv.Priority < sorted[Len(sorted)].Priority
    THEN Append(insertByPriority(SubSeq(sorted, 1, Len(sorted) - 1), srv), sorted[Len(sorted)])
    ELSE Append(sorted, srv)

\* records left in the resolver's order
sortSliceSkipped(srvs) == srvs

RECURSIVE sortSlice(_)
sortSlice(srvs) ==
  IF srvs = <<>> THEN <<>>
  ELSE insertByPriority(sortSlice(SubSeq(srvs, 1, Len(srvs) - 1)), srvs[Len(srvs)])

\* a first loop that takes records with an empty target too
RECURSIVE groupTargetsKeepsEmpty(_, _, _)
groupTargetsKeepsEmpty(srvs, i, priorities) ==
  IF i > Len(srvs) THEN priorities
  ELSE LET srv == srvs[i]
           n == Len(priorities)
           cet == ceTarget(ToLowerName(srv.Target), srv.Port, srv.Weight * smallChanceMultiplier)
       IN  IF n = 0 \/ srv.Priority # priorities[n].priority
             THEN groupTargetsKeepsEmpty(srvs, i + 1,
                    Append(priorities, [priority |-> srv.Priority, totalWeight |-> cet.weight,
                                        targets |-> <<cet>>]))
             ELSE groupTargetsKeepsEmpty(srvs, i + 1,
                    [priorities EXCEPT ![n] = [priority |-> @.priority,
                                               totalWeight |-> @.totalWeight + cet.weight,
                                               targets |-> Append(@.targets, cet)]])

\* the first loop of populate over the sorted records, from record i
RECURSIVE groupTargets(_, _, _)
groupTargets(srvs, i, priorities) ==
  IF i > Len(srvs) THEN priorities
  ELSE LET srv == srvs[i]
           n == Len(priorities)
           cet == ceTarget(ToLowerName(srv.Target), srv.Port, srv.Weight * smallChanceMultiplier)
       IN  IF srv.Target = "" THEN groupTargets(srvs, i + 1, priorities)
           ELSE IF n = 0 \/ srv.Priority # priorities[n].priority
             THEN groupTargets(srvs, i + 1,
                    Append(priorities, [priority |-> srv.Priority, totalWeight |-> cet.weight,
                                        targets |-> <<cet>>]))
             ELSE groupTargets(srvs, i + 1,
                    [priorities EXCEPT ![n] = [priority |-> @.priority,
                                               totalWeight |-> @.totalWeight + cet.weight,
                                               targets |-> Append(@.targets, cet)]])

\* a second loop that does not divide by smallChanceMultiplier
assignVerySmallUnscaled(cep) ==
  LET zeroWeightEntryCount == Cardinality({ i \in 1..Len(cep.targets) : cep.targets[i].weight = 0 })
      vs1 == IF zeroWeightEntryCount = 0 THEN 0 ELSE cep.totalWeight \div zeroWeightEntryCount
      verySmall == IF vs1 = 0 THEN 1 ELSE vs1
  IN  IF zeroWeightEntryCount = 0 THEN cep
      ELSE [priority |-> cep.priority,
            totalWeight |-> cep.totalWeight + zeroWeightEntryCount * verySmall,
            targets |-> [i \in 1..Len(cep.targets) |->
                           IF cep.targets[i].weight = 0
                             THEN [cep.targets[i] EXCEPT !.weight = verySmall]
                             ELSE cep.targets[i]]]

\* a second loop that rounds verySmall down
assignVerySmallFloor(cep) ==
  LET zeroWeightEntryCount == Cardinality({ i \in 1..Len(cep.targets) : cep.targets[i].weight = 0 })
      vs0 == cep.totalWeight \div smallChanceMultiplier
      vs1 == IF zeroWeightEntryCount = 0 THEN 0 ELSE vs0 \div zeroWeightEntryCount
      verySmall == IF vs1 = 0 THEN 1 ELSE vs1
  IN  IF zeroWeightEntryCount = 0 THEN cep
      ELSE [priority |-> cep.priority,
            totalWeight |-> cep.totalWeight + zeroWeightEntryCount * verySmall,
            targets |-> [i \in 1..Len(cep.targets) |->
                           IF cep.targets[i].weight = 0
                             THEN [cep.targets[i] EXCEPT !.weight = verySmall]
                             ELSE cep.targets[i]]]

\* the second loop of populate for one group
assignVerySmall(cep) ==
  LET zeroWeightEntryCount == Cardinality({ i \in 1..Len(cep.targets) : cep.targets[i].weight = 0 })
      vs0 == cep.totalWeight \div smallChanceMultiplier
      vs1 == IF zeroWeightEntryCount = 0 THEN 0
             ELSE (vs0 + zeroWeightEntryCount - 1) \div zeroWeightEntryCount
      verySmall == IF vs1 = 0 THEN 1 ELSE vs1
  IN  IF zeroWeightEntryCount = 0 THEN cep
      ELSE [priority |-> cep.priority,
            totalWeight |-> cep.totalWeight + zeroWeightEntryCount * verySmall,
            targets |-> [i \in 1..Len(cep.targets) |->
                           IF cep.targets[i].weight = 0
                             THEN [cep.targets[i] EXCEPT !.weight = verySmall]
                             ELSE cep.targets[i]]]

populate(srvs) ==
  LET grouped == groupTargets(sortSlice(srvs), 1, <<>>)
  IN  [g \in 1..Len(grouped) |-> assignVerySmall(grouped[g])]

(***************************************************************************)
(* Views as populate leaves them: groups in ascending priority, effective  *)
(* weights nonzero (an SRV weight w > 0 is stored as 1000 * w, an SRV      *)
(* weight of 0 as verySmall).                                              *)
(***************************************************************************)
s1 == ceTarget("s1", 4000, 1)
s2 == ceTarget("s2", 4001, 1)
s3 == ceTarget("s3", 4002, 1)

\* three zero-weight targets of one priority (TestDialExhaustUniqueTargets)
ViewFlat == << cePriority(0, <<s1, s2, s3>>) >>
\* two priority groups
ViewTwoGroups == << cePriority(10, <<s1, s2>>), cePriority(20, <<s3>>) >>
\* s1:4000 is listed in both groups: three targets, two distinct endpoints
ViewShared == << cePriority(0, <<s1, s2>>), cePriority(1, <<s1>>) >>
\* SRV weights 1 and 0 in the first group: effective weights 1000 and 1
ViewWeighted ==
  << cePriority(0, << ceTarget("s1", 4000, 1 * smallChanceMultiplier), ceTarget("s2", 4001, 1) >>),
     cePriority(5, << s3 >>) >>

DialViews == {ViewTwoGroups, ViewShared}
CacheViews == {ViewFlat, ViewTwoGroups}
SelViews == {ViewWeighted}

\* The resolver's answers that give these views.
AnswerFlat == << netSRV("s1", 4000, 0, 0), netSRV("s2", 4001, 0, 0), netSRV("s3", 4002, 0, 0) >>
AnswerTwoGroups == << netSRV("s3", 4002, 20, 0), netSRV("s1", 4000, 10, 0), netSRV("s2", 4001, 10, 0) >>
AnswerShared == << netSRV("s1", 4000, 0, 0), netSRV("s1", 4000, 1, 0), netSRV("s2", 4001, 0, 0) >>
AnswerWeighted == << netSRV("s1", 4000, 0, 1), netSRV("s2", 4001, 0, 0), netSRV("s3", 4002, 5, 0) >>

DialAnswers == {AnswerTwoGroups, AnswerShared}
CacheAnswers == {AnswerFlat, AnswerTwoGroups}
SelAnswers == {AnswerWeighted}

(***************************************************************************)
(* The health cache: a map from key to ceHealth.                           *)
(***************************************************************************)
newCeHealth(t) ==
  [expires |-> t + HealthTTL, goodDials |-> 0, failedDials |-> 0,
   nextDialAttempt |-> zeroTime, lastDialStatus |-> "", unHealthy |-> FALSE]

isGood(ceh, t) == ~ceh.unHealthy /\ ~(ceh.nextDialAttempt > t)

Put(h, key, ceh) == [k \in DOMAIN h \cup {key} |-> IF k = key THEN ceh ELSE h[k]]

\* a populateHealthStore that gives every listed key a new record
populateHealthStoreResets(h, t, keys) ==
  [k \in DOMAIN h \cup keys |-> IF k \in keys THEN newCeHealth(t) ELSE h[k]]

populateHealthStore(h, t, keys) ==
  [k \in DOMAIN h \cup keys |-> IF k \in DOMAIN h THEN h[k] ELSE newCeHealth(t)]

\* setDialResult that leaves the veto of an earlier failure in place on success
setDialResultKeepsVeto(h, t, host, port, ok) ==
  LET key == makeHealthStoreKey(host, port)
      h1 == IF key \in DOMAIN h THEN h ELSE Put(h, key, newCeHealth(t))
      ceh == h1[key]
  IN  IF ok
        THEN Put(h1, key, [ceh EXCEPT !.goodDials = @ + 1,
                                      !.lastDialStatus = ""])
        ELSE Put(h1, key, [ceh EXCEPT !.failedDials = @ + 1,
                                      !.nextDialAttempt = t + DialVetoDuration,
                                      !.lastDialStatus = "err"])

setDialResult(h, t, host, port, ok) ==
  LET key == makeHealthStoreKey(host, port)
      h1 == IF key \in DOMAIN h THEN h ELSE Put(h, key, newCeHealth(t))
      ceh == h1[key]
  IN  IF ok
        THEN Put(h1, key, [ceh EXCEPT !.goodDials = @ + 1,
                                      !.nextDialAttempt = zeroTime,
                                      !.lastDialStatus = ""])
        ELSE Put(h1, key, [ceh EXCEPT !.failedDials = @ + 1,
                                      !.nextDialAttempt = t + DialVetoDuration,
                                      !.lastDialStatus = "err"])

\* a sweep that also deletes the records expiring at the sweep's now
healthCleanInclusive(h, t) == [k \in {x \in DOMAIN h : ~(h[x].expires <= t)} |-> h[k]]

healthClean(h, t) == [k \in {x \in DOMAIN h : ~(h[x].expires < t)} |-> h[k]]

(***************************************************************************)
(* bestTarget.  A result names the return statement that produced it       *)
(* (path), the position of the chosen target in the view (gi, ti) and the  *)
(* synthesized net.SRV.                                                    *)
(***************************************************************************)
uint16(n) == n % 65536

synthSRV(cep, cet) ==
  [Target |-> cet.target, Port |-> uint16(cet.port), Priority |-> uint16(cep.priority),
   Weight |-> uint16(cet.weight) \div smallChanceMultiplier]

zeroSRV == [Target |-> "", Port |-> 0, Priority |-> 0, Weight |-> 0]

btResult(path, cesrv, gi, ti) ==
  [path |-> path, gi |-> gi, ti |-> ti,
   srv |-> IF gi = 0 THEN zeroSRV
           ELSE synthSRV(cesrv.priorities[gi], cesrv.priorities[gi].targets[ti])]

\* One draw of randIntn(cep.totalWeight) per priority group.
RECURSIVE drawsFrom(_, _)
drawsFrom(priorities, g) ==
  IF g > Len(priorities) THEN { <<>> }
  ELSE { <<r>> \o rest : r \in 0..(priorities[g].totalWeight - 1),
                         rest \in drawsFrom(priorities, g + 1) }

Draws(cesrv) == drawsFrom(cesrv.priorities, 1)

\* an inner loop that gives every target an interval of width one
RECURSIVE walkTargetsUnweighted(_, _, _, _, _, _, _, _, _)
walkTargetsUnweighted(cep, gi, h, t, wix, i, lower, have, choice) ==
  IF i > Len(cep.targets)
    THEN [found |-> FALSE, have |-> have, choice |-> choice]
    ELSE LET cet == cep.targets[i]
             key == healthStoreKey(cet)
             upper == lower + 1
             good == key \notin DOMAIN h \/ isGood(h[key], t)
         IN  IF good /\ wix >= lower /\ wix < upper
               THEN [found |-> TRUE, have |-> have, choice |-> <<gi, i>>]
               ELSE walkTargetsUnweighted(cep, gi, h, t, wix, i + 1, upper,
                                          have \/ good,
                                          IF good /\ ~have THEN <<gi, i>> ELSE choice)

\* The inner loop of the first pass: walk cep.targets from index i.  have and
\* choice are haveSecondChoice and the position remembered as second choice.
RECURSIVE walkTargets(_, _, _, _, _, _, _, _, _)
walkTargets(cep, gi, h, t, wix, i, lower, have, choice) ==
  IF i > Len(cep.targets)
    THEN [found |-> FALSE, have |-> have, choice |-> choice]
    ELSE LET cet == cep.targets[i]
             key == healthStoreKey(cet)
             upper == lower + cet.weight
             good == key \notin DOMAIN h \/ isGood(h[key], t)
         IN  IF good /\ wix >= lower /\ wix < upper
               THEN [found |-> TRUE, have |-> have, choice |-> <<gi, i>>]
               ELSE walkTargets(cep, gi, h, t, wix, i + 1, upper,
                                have \/ good,
                                IF good /\ ~have THEN <<gi, i>> ELSE choice)

\* a first pass that goes on to the next group with a second choice in hand
RECURSIVE firstPassKeepsGoing(_, _, _, _, _, _, _)
firstPassKeepsGoing(cesrv, h, t, draws, gi, have, choice) ==
  IF gi > Len(cesrv.priorities)
    THEN IF have THEN btResult("second", cesrv, choice[1], choice[2])
         ELSE btResult("none", cesrv, 0, 0)
    ELSE LET w == walkTargets(cesrv.priorities[gi], gi, h, t, draws[gi], 1, 0, have, choice)
         IN  IF w.found THEN btResult("preferred", cesrv, w.choice[1], w.choice[2])
             ELSE firstPassKeepsGoing(cesrv, h, t, draws, gi + 1, w.have, w.choice)

\* The first pass over the priority groups (dial.go 411-440).
RECURSIVE firstPass(_, _, _, _, _, _, _)
firstPass(cesrv, h, t, draws, gi, have, choice) ==
  IF gi > Len(cesrv.priorities)
    THEN btResult("none", cesrv, 0, 0)
    ELSE LET w == walkTargets(cesrv.priorities[gi], gi, h, t, draws[gi], 1, 0, have, choice)
         IN  IF w.found THEN btResult("preferred", cesrv, w.choice[1], w.choice[2])
             ELSE IF w.have THEN btResult("second", cesrv, w.choice[1], w.choice[2])
             ELSE firstPass(cesrv, h, t, draws, gi + 1, w.have, w.choice)

\* All positions of the view in scan order.
RECURSIVE positionsFrom(_, _, _)
positionsFrom(priorities, g, i) ==
  IF g > Len(priorities) THEN <<>>
  ELSE IF i > Len(priorities[g].targets) THEN positionsFrom(priorities, g + 1, 1)
  ELSE << <<g, i>> >> \o positionsFrom(priorities, g, i + 1)

Positions(cesrv) == positionsFrom(cesrv.priorities, 1, 1)

targetAt(cesrv, pos) == cesrv.priorities[pos[1]].targets[pos[2]]

\* The least-worst pass (dial.go 450-471).
RECURSIVE leastWorstFrom(_, _, _, _, _, _, _)
leastWorstFrom(cesrv, h, t, ps, n, smallestLeastWorst, choice) ==
  IF n > Len(ps)
    THEN btResult("leastworst", cesrv, choice[1], choice[2])
    ELSE LET key == healthStoreKey(targetAt(cesrv, ps[n]))
             nextAttempt == IF key \in DOMAIN h THEN h[key].nextDialAttempt ELSE t
         IN  IF IsZero(smallestLeastWorst) \/ nextAttempt < smallestLeastWorst
               THEN leastWorstFrom(cesrv, h, t, ps, n + 1, nextAttempt, ps[n])
               ELSE leastWorstFrom(cesrv, h, t, ps, n + 1, smallestLeastWorst, choice)

leastWorst(cesrv, h, t) ==
  leastWorstFrom(cesrv, h, t, Positions(cesrv), 1, zeroTime, <<0, 0>>)

\* bestTarget as a whole, the shared lock held from the first read to the return.
bestTarget(cesrv, h, t, draws) ==
  IF Len(cesrv.priorities) = 0 THEN btResult("nil", cesrv, 0, 0)
  ELSE LET f == firstPass(cesrv, h, t, draws, 1, FALSE, <<0, 0>>)
       IN  IF f.path # "none" THEN f ELSE leastWorst(cesrv, h, t)

(***************************************************************************)
(* State.                                                                  *)
(***************************************************************************)
VARIABLES
  now,          \* the wall clock read by time.Now()
  dns,          \* the SRV answer of the resolver for qName, as populate stores it
  srvStore,     \* srvCache.cache
  health,       \* healthCache.cache
  cesrv,        \* the view returned by the last lookupSRV of the caller
  bt,           \* a bestTarget call in progress: position, its now, its draws, its result
  otherDials,   \* number of dial outcomes recorded by other callers
  vetoUntil,    \* history: per key, now + DialVetoDuration of the last recorded
                \* failed dial, zero after a recorded success
  cpc,          \* dialContext: "idle", "select" (blocked in the select), "returned"
  ctxDeadline,  \* deadline of the context dialContext runs under, zero if none yet
  ctxErr,       \* ctx.Err(): "" until the context is done
  wpc,          \* dialIterate: "none", "select", "dialing", "send", "closing", "done"
  dupes,        \* dialIterate's dupes map
  wsrv,         \* the net.SRV bestTarget returned to dialIterate
  lastError,    \* dialIterate's lastError
  dialed,       \* the addresses passed to systemDialContext, in call order
  wres,         \* the dialResult dialIterate sends
  returned,     \* the result channel: values sent, closed
  ret,          \* what dialContext returned
  addr,         \* the address argument of dialContext, a sequence of characters
  hostPort,     \* what extractHostPort returned for addr
  cfg,          \* config: DisableInterception, AllowNumericServices, ServiceName
  sysCalls,     \* systemDialContext calls made with the caller's own address
  srvList,      \* the net.SRV records the resolver answers for qName
  resolverCalls,\* number of netResolver.LookupSRV calls made
  prober,       \* per health record: its fetchAndRunHealthCheck goroutine, with the
                \* outcome of its last GET
  srvLookups,   \* history: lookupSRV calls counted while cache lifetimes are observed
  orphans,      \* the fetchAndRunHealthCheck goroutines whose record the cleaner deleted
  ht,           \* the http.Transport: its DialContext hook, and the hook Enable found
  stats,        \* the cslbStats of the cslb: what addStats has transferred so far
  gor,          \* the goroutines that call lookupSRV, setDialResult and bestTarget
                \* concurrently: per goroutine its position and its locals
  mu,           \* the RWMutex of srvStore and of healthStore: who holds it
  heap,         \* the ceHealth objects allocated so far; a pointer is an index
  hcache,       \* healthStore.cache as a map from key to *ceHealth
  scache,       \* srvStore.cache as the concurrent callers see it
  installs,     \* history: the goroutines that stored a view in srvStore.cache, in order
  hcs           \* per ceHealth object: the fetchAndRunHealthCheck goroutine started with it

cacheVars == <<now, dns, srvStore, health, cesrv, bt, otherDials, vetoUntil>>
dialVars == <<cpc, ctxDeadline, ctxErr, wpc, dupes, wsrv, lastError, dialed, wres, returned, ret>>
concVars == <<gor, mu, heap, hcache, scache, installs, hcs>>
entryVars == <<addr, hostPort, cfg, sysCalls, srvLookups, orphans, ht, stats, concVars>>
callVars == <<addr, hostPort, cfg, sysCalls, srvList, resolverCalls, prober, srvLookups, orphans, ht, concVars>>
extVars == <<callVars, stats>>
vars == <<now, dns, srvStore, health, cesrv, bt, otherDials, vetoUntil,
          cpc, ctxDeadline, ctxErr, wpc, dupes, wsrv, lastError, dialed, wres, returned, ret,
          addr, hostPort, cfg, sysCalls, srvList, resolverCalls, prober, srvLookups, orphans, ht, stats,
          gor, mu, heap, hcache, scache, installs, hcs>>

qName == "_https._tcp.localhost"
address == "localhost:443"

AllKeys == { <<"s1", 4000>>, <<"s2", 4001>>, <<"s3", 4002>> }

emptyMap == [k \in {} |-> 0]

nilConn == <<>>

\* error values: nil, the context's errors, a failed attempt, all targets failed
mkErr(kind, newAddress, tried, last) ==
  [kind |-> kind, address |-> "", newAddress |-> newAddress, tried |-> tried, lastError |-> last]

nilErr == mkErr("nil", <<>>, 0, <<>>)
dialErr == mkErr("dial error", <<>>, 0, <<>>)
ctxError(e) == mkErr(e, <<>>, 0, <<>>)

\* the error systemDialContext returns for a dial of newAddress, and the text
\* err.Error() gives for an error of the underlying dialer
dialErrAt(newAddress) == mkErr("dial error", newAddress, 0, <<>>)
ErrorText(e) == <<e.kind>> \o e.newAddress

\* "cslb: All unique targets failed for %s/%s. Tried: %d. Last Error: %s"
allFailedErr(newAddress, tried, last) ==
  [mkErr("All unique targets failed", newAddress, tried, last) EXCEPT !.address = address]

dialResult(conn, err) == [conn |-> conn, err |-> err]

noResult == dialResult(nilConn, nilErr)

idleBT == [pc |-> "idle", now |-> zeroTime, draws |-> <<>>, res |-> btResult("nil", emptySRV, 0, 0)]

(***************************************************************************)
(* cslbStats: the counters of the cslb.  dialContext and dialIterate each  *)
(* count in a local cslbStats that the deferred addStats adds to the       *)
(* cslb's when the function returns.  StartTime and Duration are left out. *)
(***************************************************************************)
zeroStats ==
  [DialContext |-> 0, MissHostService |-> 0, NoSRV |-> 0, BestTarget |-> 0,
   DupesStopped |-> 0, GoodDials |-> 0, FailedDials |-> 0, Deadline |-> 0]

addStats(t, ls) == [f \in DOMAIN t |-> t[f] + ls[f]]

\* the local stats of dialContext when it returns: ls.DialContext++ at entry,
\* ls.MissHostService++ and ls.NoSRV++ on the two pass-through paths
dialContextStats(miss, noSRV) ==
  [zeroStats EXCEPT !.DialContext = 1,
                    !.MissHostService = IF miss THEN 1 ELSE 0,
                    !.NoSRV = IF noSRV THEN 1 ELSE 0]

\* the local stats of dialIterate when it returns after sending res: one
\* ls.BestTarget++ per round, one ls.DupesStopped++ if a repeated target ended
\* the loop, ls.GoodDials++ or ls.FailedDials++ per dial made
dialIterateStats(d, res) ==
  LET stopped == IF res.conn = nilConn THEN 1 ELSE 0
      good == 1 - stopped
  IN  [zeroStats EXCEPT !.BestTarget = Len(d) + stopped,
                        !.DupesStopped = stopped,
                        !.GoodDials = good,
                        !.FailedDials = Len(d) - good]

(***************************************************************************)
(* Goroutines that use the two caches at the same time.  A ceHealth is an  *)
(* object on the heap and the cache maps a key to a pointer to it; a view  *)
(* is told from another of the same content by the goroutine that built    *)
(* it.                                                                     *)
(***************************************************************************)
Lookers == {"L1", "L2"}
Dialers == {"D1", "D2"}
Readers == {"R"}
Goroutines == Lookers \cup Dialers \cup Readers

freeMutex == [writers |-> {}, readers |-> {}]

nilView == [nil |-> TRUE, by |-> "", expires |-> zeroTime, priorities |-> <<>>, lookups |-> 0]

idleGoroutine ==
  [pc |-> "idle", t |-> zeroTime, view |-> nilView, ceh |-> 0, tmp |-> 0, ok |-> FALSE]

\* the goroutines of started are about to run, the others are not there
InitConcOf(started) ==
  /\ gor = [g \in Goroutines |->
             IF g \in started THEN idleGoroutine ELSE [idleGoroutine EXCEPT !.pc = "none"]]
  /\ mu = [srv |-> freeMutex, health |-> freeMutex]
  /\ heap = <<>>
  /\ hcache = emptyMap
  /\ scache = emptyMap
  /\ installs = <<>>
  /\ hcs = <<>>

InitConc == InitConcOf({})

InitCache ==
  /\ now = 1
  /\ srvStore = emptyMap
  /\ health = emptyMap
  /\ cesrv = emptySRV
  /\ bt = idleBT
  /\ otherDials = 0
  /\ vetoUntil = [k \in AllKeys |-> zeroTime]

InitDial ==
  /\ cpc = "idle"
  /\ ctxDeadline = zeroTime
  /\ ctxErr = ""
  /\ wpc = "none"
  /\ dupes = {}
  /\ wsrv = zeroSRV
  /\ lastError = nilErr
  /\ dialed = <<>>
  /\ wres = noResult
  /\ returned = [sent |-> 0, closed |-> FALSE]
  /\ ret = noResult

noHostPort == [host |-> <<>>, port |-> <<>>, panic |-> FALSE, called |-> FALSE]

defaultConfig ==
  [DisableInterception |-> FALSE, DisableHealthChecks |-> FALSE,
   AllowNumericServices |-> FALSE, ServiceName |-> <<>>]

DisableHealthChecks == cfg.DisableHealthChecks

\* no dialContext call through the entry checks yet, no prober started
\* The dial functions an http.Transport's DialContext hook can hold: the one
\* http.DefaultTransport is built with, one the application has set, and
\* cslb's intercept.  Enable sets the hook to the intercept, whatever it was.
defaultDialContext == "http.DefaultTransport dialer"
customDialContext == "application dialer"
cslbDialContext == "cslb.dialContext"

transport(hook) == [DialContext |-> hook, prior |-> ""]
enable(t) == [DialContext |-> cslbDialContext, prior |-> t.DialContext]

\* newCslb: the function the intercept forwards to is the DialContext of
\* cslb's own net.Dialer
systemDialContext == "cslb.netDialer.DialContext"

InitCallOf(config) ==
  /\ ht = enable(transport(defaultDialContext))
  /\ addr = <<>>
  /\ hostPort = noHostPort
  /\ cfg = config
  /\ sysCalls = <<>>
  /\ resolverCalls = 0
  /\ srvLookups = 0
  /\ prober = emptyMap
  /\ orphans = {}
  /\ stats = zeroStats

InitEntryOf(config) == InitCallOf(config) /\ InitConc

InitEntry == InitEntryOf(defaultConfig)

\* the resolver's answer for qName and the view populate builds from it
InitAnswer(answers) ==
  /\ srvList \in answers
  /\ dns = populate(srvList)

Init == InitAnswer(DialAnswers) /\ InitCache /\ InitDial /\ InitEntry

CacheInit == InitAnswer(CacheAnswers) /\ InitCache /\ InitDial /\ InitEntry

SelInit == InitAnswer(SelAnswers) /\ InitCache /\ InitDial /\ InitEntry

(***************************************************************************)
(* The clock, and the context's timer.                                     *)
(***************************************************************************)
deadlineErr(t) ==
  IF ctxErr = "" /\ ~IsZero(ctxDeadline) /\ t >= ctxDeadline
    THEN "context deadline exceeded" ELSE ctxErr

Tick ==
  /\ now < MaxTime
  /\ now' = now + 1
  /\ ctxErr' = deadlineErr(now + 1)
  /\ UNCHANGED <<dns, srvStore, health, cesrv, bt, otherDials, vetoUntil>>
  /\ UNCHANGED <<cpc, ctxDeadline, wpc, dupes, wsrv, lastError, dialed, wres, returned, ret>>
  /\ UNCHANGED extVars

(***************************************************************************)
(* The health-cache lock.  Writers hold the exclusive lock for one atomic  *)
(* step; bestTarget holds the shared lock from its first read to its       *)
(* return, so a writer runs only while no bestTarget call is in progress.  *)
(***************************************************************************)
lockNotTaken == TRUE

healthLockFree == bt.pc = "idle"

(***************************************************************************)
(* lookupSRV: a cached view is returned as it is; otherwise the resolver   *)
(* is asked, the new view installed and its keys added to the health       *)
(* store.                                                                  *)
(***************************************************************************)
resolvedSRV(t) ==
  [expires |-> t + (IF Len(srvList) > 0 THEN FoundSRVTTL ELSE NotFoundSRVTTL),
   priorities |-> dns,
   uniqueTargetCount |-> Cardinality(uniqueTargetKeys(dns))]

\* The probers after the health cache changed: a created record gets a
\* prober unless health checks are disabled, the prober of a deleted record
\* has no record in the cache any more.
noResponse == [kind |-> "none", status |-> 0, bodyRead |-> FALSE, bodyOk |-> FALSE]

newProber ==
  [pc |-> IF DisableHealthChecks THEN "off" ELSE "running",
   started |-> IF DisableHealthChecks THEN 0 ELSE 1,
   resp |-> noResponse]

\* a goroutine started at every call, for the records that are there already too
probersOfStartsAgain(pr, h) ==
  [k \in DOMAIN h |-> IF k \in DOMAIN pr THEN [pr[k] EXCEPT !.started = @ + 1] ELSE newProber]

probersOf(pr, h) ==
  [k \in DOMAIN h |-> IF k \in DOMAIN pr THEN pr[k] ELSE newProber]

\* the running goroutines of the records a sweep deletes: each goes on with
\* its own pointer to the record and its own copy of expires
orphaned(h, h1, pr) ==
  { [key |-> k, expires |-> h[k].expires, pr |-> pr[k]] :
      k \in { x \in DOMAIN h \ DOMAIN h1 : pr[x].pc = "running" } }

\* a lookup that asks the resolver again when the cached view has no targets
lookupSRVForRetriesNotFound(key) ==
  IF key \in DOMAIN srvStore /\ Len(srvStore[key].priorities) > 0
    THEN /\ cesrv' = srvStore[key]
         /\ UNCHANGED <<srvStore, health, resolverCalls, prober>>
    ELSE /\ healthLockFree
         /\ resolverCalls' = resolverCalls + 1
         /\ cesrv' = resolvedSRV(now)
         /\ srvStore' = Put(srvStore, key, resolvedSRV(now))
         /\ health' = populateHealthStore(health, now, uniqueTargetKeys(dns))
         /\ prober' = probersOf(prober, health')

lookupSRVFor(key) ==
  IF key \in DOMAIN srvStore
    THEN /\ cesrv' = srvStore[key]
         /\ UNCHANGED <<srvStore, health, resolverCalls, prober>>
    ELSE /\ healthLockFree
         /\ resolverCalls' = resolverCalls + 1
         /\ cesrv' = resolvedSRV(now)
         /\ srvStore' = Put(srvStore, key, resolvedSRV(now))
         /\ health' = populateHealthStore(health, now, uniqueTargetKeys(dns))
         /\ prober' = probersOf(prober, health')

lookupSRV == lookupSRVFor(qName)

Lookup ==
  /\ lookupSRV
  /\ UNCHANGED <<now, dns, bt, otherDials, vetoUntil>>
  /\ UNCHANGED dialVars
  /\ UNCHANGED <<entryVars, srvList>>

\* a sweep that deletes nothing
srvCleanKeepsAll(store, t) == store

srvClean(store, t) == [k \in {x \in DOMAIN store : ~(store[x].expires < t)} |-> store[k]]

SrvCleaner ==
  /\ srvClean(srvStore, now) # srvStore
  /\ srvStore' = srvClean(srvStore, now)
  /\ UNCHANGED <<now, dns, health, cesrv, bt, otherDials, vetoUntil>>
  /\ UNCHANGED dialVars
  /\ UNCHANGED extVars

HealthCleaner ==
  /\ healthLockFree
  /\ healthClean(health, now) # health
  /\ health' = healthClean(health, now)
  /\ UNCHANGED <<now, dns, srvStore, cesrv, bt, otherDials, vetoUntil>>
  /\ UNCHANGED dialVars
  /\ prober' = probersOf(prober, health')
  /\ orphans' = orphans \cup orphaned(health, health', prober)
  /\ UNCHANGED <<addr, hostPort, cfg, sysCalls, srvLookups, srvList, resolverCalls, ht, stats, concVars>>

\* the history of recorded dial outcomes
noteDial(v, key, t, ok) ==
  [v EXCEPT ![key] = IF ok THEN zeroTime ELSE t + DialVetoDuration]

\* Some caller has resolved qName and may hold the view.
viewInUse == Len(cesrv.priorities) > 0 \/ qName \in DOMAIN srvStore

\* A dial outcome recorded by another caller that holds the view.
OtherDial(key, ok) ==
  /\ healthLockFree
  /\ otherDials < MaxOtherDials
  /\ viewInUse
  /\ key \in uniqueTargetKeys(dns)
  /\ health' = setDialResult(health, now, key[1], key[2], ok)
  /\ vetoUntil' = noteDial(vetoUntil, key, now, ok)
  /\ otherDials' = otherDials + 1
  /\ UNCHANGED <<now, dns, srvStore, cesrv, bt>>
  /\ UNCHANGED dialVars
  /\ prober' = probersOf(prober, health')
  /\ UNCHANGED <<entryVars, srvList, resolverCalls>>

\* The prober of a record stores the verdict of a health check whose
\* response it has read: unhealthy after a response that is not OK, healthy
\* after an OK response.  It stops at its first wake-up after the record's
\* expiration.
ProbeResult(key, unhealthy) ==
  /\ ~DisableHealthChecks
  /\ healthLockFree
  /\ key \in DOMAIN health
  /\ prober[key].pc = "running"
  /\ ~(health[key].expires < now)
  /\ health[key].unHealthy # unhealthy
  /\ health' = [health EXCEPT ![key].unHealthy = unhealthy]
  /\ UNCHANGED <<now, dns, srvStore, cesrv, bt, otherDials, vetoUntil>>
  /\ UNCHANGED dialVars
  /\ UNCHANGED extVars

(***************************************************************************)
(* bestTarget step by step, as called on the view at hand: read the clock  *)
(* and take the shared lock, the first pass, the least-worst pass, the     *)
(* return that releases the lock.                                          *)
(***************************************************************************)
BTBegin ==
  /\ bt.pc = "idle"
  /\ bt' = IF Len(cesrv.priorities) = 0
             THEN [pc |-> "ret", now |-> now, draws |-> <<>>, res |-> btResult("nil", cesrv, 0, 0)]
             ELSE [pc |-> "first", now |-> now, draws |-> <<>>, res |-> btResult("none", cesrv, 0, 0)]
  /\ UNCHANGED <<now, dns, srvStore, health, cesrv, otherDials, vetoUntil>>
  /\ UNCHANGED dialVars
  /\ UNCHANGED extVars

BTFirstPass ==
  /\ bt.pc = "first"
  /\ \E draws \in Draws(cesrv) :
       LET f == firstPass(cesrv, health, bt.now, draws, 1, FALSE, <<0, 0>>)
       IN  bt' = [pc |-> IF f.path = "none" THEN "leastworst" ELSE "ret",
                  now |-> bt.now, draws |-> draws, res |-> f]
  /\ UNCHANGED <<now, dns, srvStore, health, cesrv, otherDials, vetoUntil>>
  /\ UNCHANGED dialVars
  /\ UNCHANGED extVars

BTLeastWorst ==
  /\ bt.pc = "leastworst"
  /\ bt' = [bt EXCEPT !.pc = "ret", !.res = leastWorst(cesrv, health, bt.now)]
  /\ UNCHANGED <<now, dns, srvStore, health, cesrv, otherDials, vetoUntil>>
  /\ UNCHANGED dialVars
  /\ UNCHANGED extVars

BTReturn ==
  /\ bt.pc = "ret"
  /\ bt' = idleBT
  /\ UNCHANGED <<now, dns, srvStore, health, cesrv, otherDials, vetoUntil>>
  /\ UNCHANGED dialVars
  /\ UNCHANGED extVars

CacheNext ==
  \/ Tick
  \/ Lookup
  \/ SrvCleaner
  \/ HealthCleaner
  \/ \E key \in AllKeys, ok \in BOOLEAN : OtherDial(key, ok)
  \/ \E key \in AllKeys, unhealthy \in BOOLEAN : ProbeResult(key, unhealthy)
  \/ BTBegin
  \/ BTFirstPass
  \/ BTLeastWorst
  \/ BTReturn

CacheSpec == CacheInit /\ [][CacheNext]_vars

\* The selector on a weighted view, the clock standing still.
SelNext ==
  \/ Lookup
  \/ \E key \in AllKeys, ok \in BOOLEAN : OtherDial(key, ok)
  \/ \E key \in AllKeys, unhealthy \in BOOLEAN : ProbeResult(key, unhealthy)
  \/ BTBegin
  \/ BTFirstPass
  \/ BTLeastWorst
  \/ BTReturn

SelSpec == SelInit /\ [][SelNext]_vars

(***************************************************************************)
(* dialContext and dialIterate for one intercepted dial of address.        *)
(***************************************************************************)
\* The deadlines a caller's context may carry: none (zero), or one clock unit ahead.
CallerDeadlines(t) == {zeroTime, t + 1}

\* dialContext up to the select: the context gets a deadline if it has none,
\* lookupSRV returns the view, dialIterate is started.
DialStart(deadline) ==
  /\ cpc = "idle"
  /\ lookupSRV
  /\ uniqueTargets(cesrv') > 0
  /\ ctxDeadline' = IF IsZero(deadline) THEN now + InterceptTimeout ELSE deadline
  /\ ctxErr' = ""
  /\ cpc' = "select"
  /\ wpc' = "select"
  /\ UNCHANGED <<now, dns, bt, otherDials, vetoUntil>>
  /\ UNCHANGED <<dupes, wsrv, lastError, dialed, wres, returned, ret>>
  /\ UNCHANGED <<entryVars, srvList>>

\* The caller cancels the context it passed in.
Cancel ==
  /\ cpc = "select"
  /\ ctxErr = ""
  /\ ctxErr' = "context canceled"
  /\ UNCHANGED cacheVars
  /\ UNCHANGED <<cpc, ctxDeadline, wpc, dupes, wsrv, lastError, dialed, wres, returned, ret>>
  /\ UNCHANGED extVars

newAddressOf(srv) == <<srv.Target, srv.Port>>

neverTried(d, newAddress) == FALSE

alreadyTried(d, newAddress) == newAddress \in d

\* dialIterate from the top of the loop to the call of systemDialContext.
WorkerSelect ==
  /\ wpc = "select"
  /\ \E draws \in Draws(cesrv) :
       LET b == bestTarget(cesrv, health, now, draws)
           newAddress == newAddressOf(b.srv)
       IN  /\ wsrv' = b.srv
           /\ IF alreadyTried(dupes, newAddress)
                THEN /\ wres' = dialResult(nilConn,
                                   allFailedErr(newAddress, Cardinality(dupes), ErrorText(lastError)))
                     /\ wpc' = "send"
                     /\ UNCHANGED <<dupes, dialed>>
                ELSE /\ dupes' = dupes \cup {newAddress}
                     /\ dialed' = Append(dialed, newAddress)
                     /\ wpc' = "dialing"
                     /\ UNCHANGED wres
  /\ UNCHANGED cacheVars
  /\ UNCHANGED <<cpc, ctxDeadline, ctxErr, lastError, returned, ret>>
  /\ UNCHANGED extVars

\* a worker that records failed attempts only
recordAttemptFailuresOnly(h, t, srv, ok) ==
  IF ok THEN h ELSE setDialResult(h, t, srv.Target, srv.Port, ok)

\* dialIterate records the outcome of the attempt it has just made
recordAttempt(h, t, srv, ok) == setDialResult(h, t, srv.Target, srv.Port, ok)

\* a worker that sends the error of a failed attempt instead of going round
WorkerDialDoneSendsError(ok) ==
  /\ wpc = "dialing"
  /\ healthLockFree
  /\ lastError' = IF ok THEN nilErr ELSE dialErrAt(newAddressOf(wsrv))
  /\ health' = recordAttempt(health, now, wsrv, ok)
  /\ vetoUntil' = noteDial(vetoUntil, makeHealthStoreKey(wsrv.Target, wsrv.Port), now, ok)
  /\ wres' = IF ok THEN dialResult(newAddressOf(wsrv), nilErr)
                   ELSE dialResult(nilConn, dialErrAt(newAddressOf(wsrv)))
  /\ wpc' = "send"
  /\ UNCHANGED <<now, dns, srvStore, cesrv, bt, otherDials>>
  /\ UNCHANGED <<cpc, ctxDeadline, ctxErr, dupes, wsrv, dialed, returned, ret>>
  /\ prober' = probersOf(prober, health')
  /\ UNCHANGED <<entryVars, srvList, resolverCalls>>

\* systemDialContext returns, after any time and with either outcome; the
\* outcome is recorded and either sent or the loop goes round.
WorkerDialDone(ok) ==
  /\ wpc = "dialing"
  /\ healthLockFree
  /\ lastError' = IF ok THEN nilErr ELSE dialErrAt(newAddressOf(wsrv))
  /\ health' = recordAttempt(health, now, wsrv, ok)
  /\ vetoUntil' = noteDial(vetoUntil, makeHealthStoreKey(wsrv.Target, wsrv.Port), now, ok)
  /\ IF ok
       THEN /\ wres' = dialResult(newAddressOf(wsrv), nilErr)
            /\ wpc' = "send"
       ELSE /\ wpc' = "select"
            /\ UNCHANGED wres
  /\ UNCHANGED <<now, dns, srvStore, cesrv, bt, otherDials>>
  /\ UNCHANGED <<cpc, ctxDeadline, ctxErr, dupes, wsrv, dialed, returned, ret>>
  /\ prober' = probersOf(prober, health')
  /\ UNCHANGED <<entryVars, srvList, resolverCalls>>

\* The select in dialContext receives what dialIterate sends on the
\* unbuffered channel.
DialSelectResult ==
  /\ cpc = "select"
  /\ wpc = "send"
  /\ ret' = wres
  /\ cpc' = "returned"
  /\ returned' = [returned EXCEPT !.sent = @ + 1]
  /\ wpc' = "closing"
  /\ UNCHANGED cacheVars
  /\ UNCHANGED <<ctxDeadline, ctxErr, dupes, wsrv, lastError, dialed, wres>>
  /\ stats' = addStats(stats, dialContextStats(FALSE, FALSE))
  /\ UNCHANGED callVars

\* a select that looks at ctx.Done() only while no attempt is in progress
DialSelectCtxBetweenAttempts ==
  /\ cpc = "select"
  /\ ctxErr # ""
  /\ wpc # "dialing"
  /\ ret' = dialResult(nilConn, ctxError(ctxErr))
  /\ cpc' = "returned"
  /\ UNCHANGED cacheVars
  /\ UNCHANGED <<ctxDeadline, ctxErr, wpc, dupes, wsrv, lastError, dialed, wres, returned>>
  /\ stats' = addStats(stats, dialContextStats(FALSE, FALSE))
  /\ UNCHANGED callVars

\* The select in dialContext sees ctx.Done().
DialSelectCtx ==
  /\ cpc = "select"
  /\ ctxErr # ""
  /\ ret' = dialResult(nilConn, ctxError(ctxErr))
  /\ cpc' = "returned"
  /\ UNCHANGED cacheVars
  /\ UNCHANGED <<ctxDeadline, ctxErr, wpc, dupes, wsrv, lastError, dialed, wres, returned>>
  /\ stats' = addStats(stats, dialContextStats(FALSE, FALSE))
  /\ UNCHANGED callVars

DialSelect == DialSelectResult \/ DialSelectCtx

\* dialIterate returns: the deferred close of the result channel.
WorkerClose ==
  /\ wpc = "closing"
  /\ wpc' = "done"
  /\ returned' = [returned EXCEPT !.closed = TRUE]
  /\ UNCHANGED cacheVars
  /\ UNCHANGED <<cpc, ctxDeadline, ctxErr, dupes, wsrv, lastError, dialed, wres, ret>>
  /\ stats' = addStats(stats, dialIterateStats(dialed, wres))
  /\ UNCHANGED callVars

Next ==
  \/ Tick
  \/ HealthCleaner
  \/ \E key \in AllKeys, unhealthy \in BOOLEAN : ProbeResult(key, unhealthy)
  \/ \E deadline \in CallerDeadlines(now) : DialStart(deadline)
  \/ Cancel
  \/ WorkerSelect
  \/ \E ok \in BOOLEAN : WorkerDialDone(ok)
  \/ DialSelectResult
  \/ DialSelectCtx
  \/ WorkerClose

Spec == Init /\ [][Next]_vars

\* The goroutine that called dialContext keeps running: its select is taken
\* once a case is ready.  Nothing makes the underlying dialer return.
LiveSpec == Init /\ [][Next]_vars /\ WF_vars(DialSelect)

(***************************************************************************)
(* Properties of one intercepted dial.                                     *)
(***************************************************************************)
ctxErrors == {"context canceled", "context deadline exceeded"}
AllFailed == "All unique targets failed"
DialedSet == { dialed[i] : i \in 1..Len(dialed) }

\* C1: an intercepted dial that reached its select returns once its context
\* is done, however long the underlying dialer blocks; the context carries
\* the caller's deadline, or entry + InterceptTimeout when the caller gave
\* none, and is done when that time is reached; a return taken from
\* ctx.Done() returns a nil connection and the context's error.
ReturnsWhenContextDone ==
  /\ (cpc = "select" /\ ctxErr # "") ~> (cpc = "returned")
  /\ [][\A deadline \in CallerDeadlines(now) :
          DialStart(deadline) =>
            ctxDeadline' = IF IsZero(deadline) THEN now + InterceptTimeout ELSE deadline]_vars
  /\ []((cpc = "select" /\ now >= ctxDeadline) => ctxErr # "")
  /\ [][(cpc = "select" /\ cpc' = "returned" /\ returned' = returned) =>
          (ctxErr \in ctxErrors /\ ret' = dialResult(nilConn, ctxError(ctxErr)))]_vars

\* dialContext returned the deadline error while the dialer was still blocked
ReturnedWhileDialing ==
  /\ cpc = "returned"
  /\ wpc = "dialing"
  /\ ret = dialResult(nilConn, ctxError("context deadline exceeded"))
  /\ now = ctxDeadline

\* C2: within one dial the underlying dialer is never called twice with the
\* same host:port, and never more often than the view has distinct endpoints.
DialerCalledOncePerEndpoint ==
  /\ \A i, j \in 1..Len(dialed) : i # j => dialed[i] # dialed[j]
  /\ Len(dialed) <= uniqueTargets(cesrv)

\* every distinct endpoint of a view that lists one endpoint twice was dialed
SharedViewExhausted ==
  /\ cesrv.priorities = ViewShared
  /\ Len(dialed) = uniqueTargets(cesrv)
  /\ ret.err.kind = AllFailed

\* C3: when the dial ends with the 'All unique targets failed' error, every
\* distinct host:port of the view was passed to the underlying dialer.
AllFailedMeansAllDialed ==
  (cpc = "returned" /\ ret.err.kind = AllFailed) =>
    DialedSet = uniqueTargetKeys(cesrv.priorities)

\* C4: the dial returns a connection with a nil error from a successful
\* underlying dial, or the 'All unique targets failed' error, or the
\* context's error, each of the last two with a nil connection; never the
\* error of a failed attempt, never (nil, nil); the worker sends one result
\* before it closes the channel.
ExactlyOneOutcome ==
  /\ cpc = "returned" =>
       \/ /\ ret.conn # nilConn
          /\ ret.err = nilErr
          /\ ret.conn = dialed[Len(dialed)]
          /\ lastError = nilErr
       \/ /\ ret.conn = nilConn
          /\ ret.err.kind = AllFailed
       \/ /\ ret.conn = nilConn
          /\ ret.err.kind \in ctxErrors
          /\ ret.err = ctxError(ctxErr)
  /\ returned.sent <= 1
  /\ returned.closed => returned.sent = 1

\* a connection was returned after an attempt had failed, and the channel is closed
ConnAfterFailedAttempt ==
  /\ cpc = "returned"
  /\ ret.conn # nilConn
  /\ Len(dialed) = 2
  /\ returned.closed

(***************************************************************************)
(* Properties of the selector and of the health cache.                     *)
(***************************************************************************)
\* An endpoint is eligible at time t: no health record, or not unhealthy and
\* its nextDialAttempt is not after t.
Eligible(h, key, t) ==
  key \notin DOMAIN h \/ (~h[key].unHealthy /\ h[key].nextDialAttempt <= t)

GroupIndexes == 1..Len(cesrv.priorities)
TargetIndexes(g) == 1..Len(cesrv.priorities[g].targets)
KeyAt(g, i) == <<cesrv.priorities[g].targets[i].target, cesrv.priorities[g].targets[i].port>>
EligibleAt(g, i) == Eligible(health, KeyAt(g, i), bt.now)
GroupHasEligible(g) == \E i \in TargetIndexes(g) : EligibleAt(g, i)
SomeEligible == \E g \in GroupIndexes : GroupHasEligible(g)

\* bestTarget has computed the endpoint it returns and still holds the lock.
Returning == bt.pc = "ret" /\ bt.res.path # "nil"
ReturnedKey == <<bt.res.srv.Target, bt.res.srv.Port>>

\* C5: bestTarget never returns a target of a priority group while a group of
\* numerically lower priority holds an eligible target.
PreferredPriorityWins ==
  Returning =>
    \A g \in GroupIndexes :
      cesrv.priorities[g].priority < bt.res.srv.Priority => ~GroupHasEligible(g)

\* a target of the second group is returned on the first pass
LowerPriorityReturned ==
  /\ Returning
  /\ bt.res.path \in {"preferred", "second"}
  /\ bt.res.srv.Priority > cesrv.priorities[1].priority

\* C6: the endpoint bestTarget returns is eligible in the health cache as it
\* stands when bestTarget returns, unless the view holds no eligible endpoint,
\* and then it comes from the least-worst pass.
ReturnedIsEligible ==
  Returning =>
    IF SomeEligible
      THEN bt.res.path \in {"preferred", "second"} /\ Eligible(health, ReturnedKey, bt.now)
      ELSE bt.res.path = "leastworst"

\* the first pass skipped an ineligible target and returned an eligible one
EligibleReturnedPastIneligible ==
  /\ Returning
  /\ bt.res.path = "second"
  /\ \E g \in GroupIndexes : \E i \in TargetIndexes(g) : ~EligibleAt(g, i)
  /\ Eligible(health, ReturnedKey, bt.now)

\* the time the least-worst pass compares for a target
NextAttemptOf(key) == IF key \in DOMAIN health THEN health[key].nextDialAttempt ELSE bt.now

\* C7: when no target is eligible, bestTarget returns a target whose
\* nextDialAttempt is the smallest of all targets of all groups (a missing
\* record counting as now).
LeastWorstIsSmallest ==
  (Returning /\ ~SomeEligible) =>
    \A g \in GroupIndexes : \A i \in TargetIndexes(g) :
      NextAttemptOf(ReturnedKey) <= NextAttemptOf(KeyAt(g, i))

\* the weight interval [LowerBound, UpperBound) of target i of group g
LowerBound(g, i) == sumWeights(SubSeq(cesrv.priorities[g].targets, 1, i - 1))
UpperBound(g, i) == LowerBound(g, i) + cesrv.priorities[g].targets[i].weight
InRange(g, i, r) == LowerBound(g, i) <= r /\ r < UpperBound(g, i)
FirstEligibleGroup == CHOOSE g \in GroupIndexes :
  GroupHasEligible(g) /\ \A g2 \in 1..(g - 1) : ~GroupHasEligible(g2)
FirstEligibleIn(g) == CHOOSE i \in TargetIndexes(g) :
  EligibleAt(g, i) /\ \A i2 \in 1..(i - 1) : ~EligibleAt(g, i2)

\* C8: in the first group with an eligible target, the target whose weight
\* interval holds the draw r is returned if it is eligible, and the first
\* eligible target of the group otherwise; when the whole first group is
\* eligible each target is selected by as many draws as its effective weight
\* and no target of a later group is returned.
WeightedChoice ==
  /\ (Returning /\ SomeEligible) =>
       LET g == FirstEligibleGroup
           r == bt.draws[g]
           hit == CHOOSE i \in TargetIndexes(g) : InRange(g, i, r)
       IN  /\ bt.res.gi = g
           /\ bt.res.ti = IF EligibleAt(g, hit) THEN hit ELSE FirstEligibleIn(g)
           /\ bt.res.srv.Target = cesrv.priorities[g].targets[bt.res.ti].target
  /\ (bt.pc = "first" /\ \A i \in TargetIndexes(1) : EligibleAt(1, i)) =>
       \A i \in TargetIndexes(1) :
         Cardinality({ d \in Draws(cesrv) :
                         LET b == bestTarget(cesrv, health, bt.now, d)
                         IN  b.gi = 1 /\ b.ti = i })
           = cesrv.priorities[1].targets[i].weight * Cardinality(drawsFrom(cesrv.priorities, 2))

\* the draw landed on an ineligible target and the first eligible one is returned
DrawOnIneligible ==
  /\ Returning
  /\ bt.res.path = "second"
  /\ \E i \in TargetIndexes(bt.res.gi) : InRange(bt.res.gi, i, bt.draws[bt.res.gi]) /\ ~EligibleAt(bt.res.gi, i)

\* the health cache after a dial outcome for key was recorded at now
DialRecorded(key, ok) ==
  LET fresh == key \notin DOMAIN health
      new == health'[key]
  IN  /\ DOMAIN health' = DOMAIN health \cup {key}
      /\ \A k \in DOMAIN health \ {key} : health'[k] = health[k]
      /\ new.expires = IF fresh THEN now + HealthTTL ELSE health[key].expires
      /\ new.unHealthy = IF fresh THEN FALSE ELSE health[key].unHealthy
      /\ new.goodDials = (IF fresh THEN 0 ELSE health[key].goodDials) + (IF ok THEN 1 ELSE 0)
      /\ new.failedDials = (IF fresh THEN 0 ELSE health[key].failedDials) + (IF ok THEN 0 ELSE 1)
      /\ new.nextDialAttempt = IF ok THEN zeroTime ELSE now + DialVetoDuration
      /\ ~ok => new.nextDialAttempt > zeroTime

\* C9: setDialResult creates the record if absent; a failure sets
\* nextDialAttempt to now + DialVetoDuration and adds one to failedDials, a
\* success sets nextDialAttempt to the zero time and adds one to goodDials;
\* expiration, unhealthy flag, the other counter and all other records stay.
SetDialResultEffect ==
  [][\A key \in AllKeys, ok \in BOOLEAN : OtherDial(key, ok) => DialRecorded(key, ok)]_vars

\* a success and then a failure were recorded for one endpoint
GoodThenFailed ==
  \E key \in DOMAIN health :
    /\ health[key].goodDials = 1
    /\ health[key].failedDials = 1
    /\ health[key].nextDialAttempt > zeroTime

\* C10: from a failed dial recorded for an endpoint at time t until
\* t + DialVetoDuration, unless a success is recorded in between, bestTarget
\* does not return the endpoint on the preferred or the second-choice path.
VetoRespected ==
  (Returning /\ bt.res.path \in {"preferred", "second"}) =>
    ~(bt.now < vetoUntil[ReturnedKey])

(***************************************************************************)
(* Addresses.  An adr is the sequence of its characters.               *)
(***************************************************************************)
MaxAddrLen == 4       \* every adr of up to this many characters is tried

AddrChars == {"x", "1", ".", ":", "[", "]"}

RECURSIVE SeqsUpTo(_, _)
SeqsUpTo(chars, n) ==
  IF n = 0 THEN { <<>> }
  ELSE LET shorter == SeqsUpTo(chars, n - 1)
       IN  shorter \cup { Append(q, c) : q \in { r \in shorter : Len(r) = n - 1 }, c \in chars }

\* the addresses of TestExtractHostPort, with shorter names
TestAddresses ==
  { <<"x", ".", "x", ":", "8", "0">>,
    <<"w", ".", "x", ":", "4", "4", "3">>,
    <<":", "w", ".", "x">>,
    <<"w", ".", "x", ":">>,
    <<"1", "2", "7", ".", "0", ".", "0", ".", "1">>,
    <<"1", "2", "7", ".", "0", ".", "0", ".", "1", ":", "8", "0">>,
    <<"[", ":", ":", "1", "]">>,
    <<"[", ":", ":", "1", "]", ":", "8", "0">>,
    <<"[", "f", "e", "8", "0", ":", ":", "3", "c", "]", ":", "4", "4", "3">> }

Addresses == SeqsUpTo(AddrChars, MaxAddrLen) \cup TestAddresses

Digits == {"0", "1", "2", "3", "4", "5", "6", "7", "8", "9"}
HexDigits == Digits \cup {"a", "b", "c", "d", "e", "f", "A", "B", "C", "D", "E", "F"}

digitValue(c) ==
  CASE c = "0" -> 0 [] c = "1" -> 1 [] c = "2" -> 2 [] c = "3" -> 3 [] c = "4" -> 4
    [] c = "5" -> 5 [] c = "6" -> 6 [] c = "7" -> 7 [] c = "8" -> 8 [] c = "9" -> 9

RECURSIVE decimalValue(_)
decimalValue(q) ==
  IF q = <<>> THEN 0 ELSE 10 * decimalValue(SubSeq(q, 1, Len(q) - 1)) + digitValue(q[Len(q)])

\* strings.Split(q, sep) for a one-character separator
RECURSIVE splitFrom(_, _, _, _)
splitFrom(q, sep, i, cur) ==
  IF i > Len(q) THEN <<cur>>
  ELSE IF q[i] = sep THEN <<cur>> \o splitFrom(q, sep, i + 1, <<>>)
  ELSE splitFrom(q, sep, i + 1, Append(cur, q[i]))

Split(q, sep) == splitFrom(q, sep, 1, <<>>)

\* strings.LastIndex(q, c), counted from 0; -1 if c does not occur
LastIndex(q, c) ==
  LET hits == { i \in 1..Len(q) : q[i] = c }
  IN  IF hits = {} THEN -1 ELSE (CHOOSE i \in hits : \A j \in hits : j <= i) - 1

\* net.ParseIP: dotted-decimal IPv4
isDecimalByte(q) ==
  /\ Len(q) \in 1..3
  /\ \A i \in 1..Len(q) : q[i] \in Digits
  /\ Len(q) > 1 => q[1] # "0"
  /\ decimalValue(q) <= 255

parseIPv4(q) ==
  LET parts == Split(q, ".")
  IN  Len(parts) = 4 /\ \A i \in 1..4 : isDecimalByte(parts[i])

\* net.ParseIP: IPv6, groups of hex digits with at most one "::" and an
\* optional dotted-decimal tail
isHexGroup(q) == Len(q) \in 1..4 /\ \A i \in 1..Len(q) : q[i] \in HexDigits

\* the number of 16-bit groups of a colon-separated list, -1 if malformed;
\* tail says whether the list may end in a dotted-decimal IPv4
groupCount(q, tail) ==
  LET parts == Split(q, ":")
      n == Len(parts)
      lastV4 == tail /\ parseIPv4(parts[n])
  IN  IF q = <<>> THEN 0
      ELSE IF /\ \A i \in 1..(n - 1) : isHexGroup(parts[i])
              /\ (isHexGroup(parts[n]) \/ lastV4)
             THEN IF lastV4 THEN n + 1 ELSE n
             ELSE -1

parseIPv6(q) ==
  LET ellipses == { i \in 1..(Len(q) - 1) : q[i] = ":" /\ q[i + 1] = ":" }
  IN  IF ellipses = {} THEN groupCount(q, TRUE) = 8
      ELSE /\ Cardinality(ellipses) = 1
           /\ LET e == CHOOSE i \in ellipses : TRUE
                  left == groupCount(SubSeq(q, 1, e - 1), FALSE)
                  right == groupCount(SubSeq(q, e + 2, Len(q)), TRUE)
              IN  left >= 0 /\ right >= 0 /\ left + right <= 8

ParseIP(q) == parseIPv4(q) \/ parseIPv6(q)

(***************************************************************************)
(* extractHostPort.  Indexing an empty adr panics.                     *)
(***************************************************************************)
hostPortResult(host, port, panic) ==
  [host |-> host, port |-> port, panic |-> panic, called |-> TRUE]

extractHostPort(adr) ==
  IF Len(adr) = 0 THEN hostPortResult(<<>>, <<>>, TRUE)
  ELSE IF adr[1] = "[" THEN hostPortResult(<<>>, <<>>, FALSE)
  ELSE LET lastColon == LastIndex(adr, ":")
           host == SubSeq(adr, 1, lastColon)
           port == SubSeq(adr, lastColon + 2, Len(adr))
       IN  IF lastColon < 1 THEN hostPortResult(<<>>, <<>>, FALSE)
           ELSE IF lastColon + 1 = Len(adr) THEN hostPortResult(<<>>, <<>>, FALSE)
           ELSE IF ParseIP(host) THEN hostPortResult(<<>>, <<>>, FALSE)
           ELSE hostPortResult(host, port, FALSE)

\* One call of extractHostPort on an adr.
ParseInit ==
  /\ InitAnswer({<<>>}) /\ InitCache /\ InitDial
  /\ addr \in Addresses
  /\ hostPort = noHostPort
  /\ cfg = defaultConfig
  /\ sysCalls = <<>>
  /\ resolverCalls = 0
  /\ srvLookups = 0
  /\ prober = emptyMap
  /\ orphans = {}
  /\ stats = zeroStats
  /\ InitConc
  /\ ht = enable(transport(defaultDialContext))

ExtractHostPort ==
  /\ ~hostPort.called
  /\ hostPort' = extractHostPort(addr)
  /\ UNCHANGED <<cacheVars, dialVars>>
  /\ UNCHANGED <<addr, srvLookups, orphans, concVars, stats, ht, cfg, sysCalls, srvList, resolverCalls, prober>>

ParseNext == ExtractHostPort

ParseSpec == ParseInit /\ [][ParseNext]_vars

(***************************************************************************)
(* Properties of extractHostPort.                                          *)
(***************************************************************************)
\* adr has the form hostname:port: a last colon with a non-empty port behind it
\* and before it a non-empty host that is no IP literal and opens no bracket
SplitsAt(adr, i) ==
  /\ i \in 2..(Len(adr) - 1)
  /\ adr[i] = ":"
  /\ \A j \in (i + 1)..Len(adr) : adr[j] # ":"
  /\ adr[1] # "["
  /\ ~ParseIP(SubSeq(adr, 1, i - 1))

HostnamePortForm(adr) == \E i \in 1..Len(adr) : SplitsAt(adr, i)

\* C13: extractHostPort does not fail; it returns the host before and the
\* port behind the last colon for an adr of the form hostname:port
\* (hostname non-empty and no IP literal, port non-empty) and ("", "") for
\* every other adr, the empty string included.
ExtractHostPortForm ==
  hostPort.called =>
    /\ ~hostPort.panic
    /\ IF HostnamePortForm(addr)
         THEN \E i \in 1..Len(addr) :
                /\ SplitsAt(addr, i)
                /\ hostPort.host = SubSeq(addr, 1, i - 1)
                /\ hostPort.port = SubSeq(addr, i + 1, Len(addr))
         ELSE hostPort.host = <<>> /\ hostPort.port = <<>>

(***************************************************************************)
(* The entry of dialContext: the address is split, the port mapped to a    *)
(* service, and the dial either passed through to systemDialContext with   *)
(* the caller's network and address or intercepted.                        *)
(***************************************************************************)
ToLowerChar(c) ==
  CASE c = "X" -> "x"
    [] c = "W" -> "w"
    [] OTHER -> c

ToLower(q) == [i \in 1..Len(q) |-> ToLowerChar(q[i])]

network == <<"t", "c", "p">>
http == <<"h", "t", "t", "p">>
https == <<"h", "t", "t", "p", "s">>
port80 == <<"8", "0">>
port443 == <<"4", "4", "3">>

\* the service name dialContext derives from the port
serviceOf(port, config) ==
  IF config.ServiceName # <<>> THEN config.ServiceName
  ELSE IF port = port80 THEN http
  ELSE IF port = port443 THEN https
  ELSE IF config.AllowNumericServices THEN port
  ELSE <<>>

\* the cache key lookupSRV forms: ToLower(_service._proto.domain)
srvKey(service, proto, domain) ==
  ToLower(<<"_">> \o service \o <<".", "_">> \o proto \o <<".">> \o domain)

missHostService(hp, service, config) ==
  Len(hp.host) = 0 \/ Len(service) = 0 \/ config.DisableInterception

sysCall(net, adr) == [dialer |-> systemDialContext, network |-> net, address |-> adr]

\* what systemDialContext may return for adr: a connection to it, or an error
connTo(adr) == <<adr>>
SysResults(adr) == { dialResult(connTo(adr), nilErr), dialResult(nilConn, dialErr) }

EntryAddresses ==
  { <<>>,
    <<"x">>,
    <<":", "8", "0">>,
    <<"x", ":">>,
    <<"x", ":", "8", "0">>,
    <<"X", ":", "4", "4", "3">>,
    <<"x", ":", "8", "1">>,
    <<"1", ".", "1", ".", "1", ".", "1", ":", "8", "0">>,
    <<"[", ":", ":", "1", "]", ":", "8", "0">>,
    <<":", ":", "1">> }

Configs ==
  [DisableInterception : BOOLEAN, DisableHealthChecks : {FALSE}, AllowNumericServices : BOOLEAN,
   ServiceName : { <<>>, <<"s", "v", "c">> }]

\* no records (or a resolver error), only empty targets, targets
EntryAnswers ==
  { <<>>,
    << netSRV("", 4000, 0, 0), netSRV("", 4001, 1, 5) >>,
    << netSRV("s1", 4000, 0, 0) >>,
    << netSRV("", 4000, 0, 0), netSRV("S2", 4001, 0, 0) >> }

\* the caches after another name was looked up at time 1
otherKey == srvKey(https, network, <<"o">>)
WarmSRVStore ==
  Put(emptyMap, otherKey,
      [expires |-> 1 + FoundSRVTTL, priorities |-> ViewFlat, uniqueTargetCount |-> 3])
WarmHealth == populateHealthStore(emptyMap, 1, uniqueTargetKeys(ViewFlat))

EntryInit ==
  /\ InitAnswer(EntryAnswers)
  /\ InitDial
  /\ now = 1
  /\ \E warm \in BOOLEAN :
       /\ srvStore = IF warm THEN WarmSRVStore ELSE emptyMap
       /\ health = IF warm THEN WarmHealth ELSE emptyMap
  /\ cesrv = emptySRV
  /\ bt = idleBT
  /\ otherDials = 0
  /\ vetoUntil = [k \in AllKeys |-> zeroTime]
  /\ addr \in EntryAddresses
  /\ hostPort = noHostPort
  /\ cfg \in Configs
  /\ sysCalls = <<>>
  /\ resolverCalls = 0
  /\ srvLookups = 0
  /\ prober = probersOf(emptyMap, health)
  /\ orphans = {}
  /\ stats = zeroStats
  /\ InitConc
  /\ ht \in { transport(defaultDialContext), transport(customDialContext) }

\* extractHostPort panics on the empty address.
\* Enable(ht): the transport's hook is replaced by the intercept.
Enable ==
  /\ ht.DialContext # cslbDialContext
  /\ ht' = enable(ht)
  /\ UNCHANGED <<cacheVars, dialVars>>
  /\ UNCHANGED <<addr, hostPort, cfg, sysCalls, srvLookups, orphans, concVars, stats, srvList, resolverCalls, prober>>

\* a request of the transport reaches dialContext
intercepted == ht.DialContext = cslbDialContext

DialContextPanics ==
  /\ intercepted
  /\ cpc = "idle"
  /\ extractHostPort(ToLower(addr)).panic
  /\ hostPort' = extractHostPort(ToLower(addr))
  /\ cpc' = "panicked"
  /\ stats' = addStats(stats, dialContextStats(FALSE, FALSE))
  /\ UNCHANGED cacheVars
  /\ UNCHANGED <<ctxDeadline, ctxErr, wpc, dupes, wsrv, lastError, dialed, wres, returned, ret>>
  /\ UNCHANGED <<addr, srvLookups, orphans, concVars, ht, cfg, sysCalls, srvList, resolverCalls, prober>>

\* No host, no service or interception disabled: the dial is passed through.
DialContextMiss(result) ==
  LET hp == extractHostPort(ToLower(addr))
  IN  /\ intercepted
      /\ cpc = "idle"
      /\ ~hp.panic
      /\ missHostService(hp, serviceOf(hp.port, cfg), cfg)
      /\ hostPort' = hp
      /\ sysCalls' = Append(sysCalls, sysCall(network, addr))
      /\ ret' = result
      /\ cpc' = "returned"
      /\ stats' = addStats(stats, dialContextStats(TRUE, FALSE))
      /\ UNCHANGED cacheVars
      /\ UNCHANGED <<ctxDeadline, ctxErr, wpc, dupes, wsrv, lastError, dialed, wres, returned>>
      /\ UNCHANGED <<addr, srvLookups, orphans, concVars, ht, cfg, srvList, resolverCalls, prober>>

\* a pass-through that hands on the lowercased address
DialContextNoSRVLowered(result) ==
  LET hp == extractHostPort(ToLower(addr))
      service == serviceOf(hp.port, cfg)
  IN  /\ intercepted
      /\ cpc = "idle"
      /\ ~hp.panic
      /\ ~missHostService(hp, service, cfg)
      /\ hostPort' = hp
      /\ ctxDeadline' = now + InterceptTimeout
      /\ lookupSRVFor(srvKey(service, network, hp.host))
      /\ uniqueTargets(cesrv') = 0
      /\ sysCalls' = Append(sysCalls, sysCall(network, ToLower(addr)))
      /\ ret' = result
      /\ cpc' = "returned"
      /\ stats' = addStats(stats, dialContextStats(FALSE, TRUE))
      /\ UNCHANGED <<now, dns, bt, otherDials, vetoUntil>>
      /\ UNCHANGED <<ctxErr, wpc, dupes, wsrv, lastError, dialed, wres, returned>>
      /\ UNCHANGED <<addr, srvLookups, orphans, concVars, ht, cfg, srvList>>

\* The SRV lookup gives a view without targets: the dial is passed through.
DialContextNoSRV(result) ==
  LET hp == extractHostPort(ToLower(addr))
      service == serviceOf(hp.port, cfg)
  IN  /\ intercepted
      /\ cpc = "idle"
      /\ ~hp.panic
      /\ ~missHostService(hp, service, cfg)
      /\ hostPort' = hp
      /\ ctxDeadline' = now + InterceptTimeout
      /\ lookupSRVFor(srvKey(service, network, hp.host))
      /\ uniqueTargets(cesrv') = 0
      /\ sysCalls' = Append(sysCalls, sysCall(network, addr))
      /\ ret' = result
      /\ cpc' = "returned"
      /\ stats' = addStats(stats, dialContextStats(FALSE, TRUE))
      /\ UNCHANGED <<now, dns, bt, otherDials, vetoUntil>>
      /\ UNCHANGED <<ctxErr, wpc, dupes, wsrv, lastError, dialed, wres, returned>>
      /\ UNCHANGED <<addr, srvLookups, orphans, concVars, ht, cfg, srvList>>

\* The view has targets: dialIterate is started and dialContext selects.
DialContextIntercept ==
  LET hp == extractHostPort(ToLower(addr))
      service == serviceOf(hp.port, cfg)
  IN  /\ intercepted
      /\ cpc = "idle"
      /\ ~hp.panic
      /\ ~missHostService(hp, service, cfg)
      /\ hostPort' = hp
      /\ ctxDeadline' = now + InterceptTimeout
      /\ lookupSRVFor(srvKey(service, network, hp.host))
      /\ uniqueTargets(cesrv') > 0
      /\ cpc' = "select"
      /\ wpc' = "select"
      /\ UNCHANGED <<now, dns, bt, otherDials, vetoUntil>>
      /\ UNCHANGED <<ctxErr, dupes, wsrv, lastError, dialed, wres, returned, ret>>
      /\ UNCHANGED <<addr, srvLookups, orphans, concVars, stats, ht, cfg, sysCalls, srvList>>

EntryNext ==
  \/ Enable
  \/ DialContextPanics
  \/ \E result \in SysResults(addr) : DialContextMiss(result)
  \/ \E result \in SysResults(addr) : DialContextNoSRV(result)
  \/ DialContextIntercept

EntrySpec == EntryInit /\ [][EntryNext]_vars

(***************************************************************************)
(* Properties of the entry of dialContext.                                 *)
(***************************************************************************)
\* the port of an address hostname:port
PortOf(adr) == SubSeq(adr, LastIndex(adr, ":") + 2, Len(adr))

\* the port maps to no service name
NoServiceName(adr) ==
  /\ cfg.ServiceName = <<>>
  /\ ~cfg.AllowNumericServices
  /\ PortOf(adr) \notin {port80, port443}

\* the dial is not to be intercepted
BypassCase ==
  \/ ~HostnamePortForm(ToLower(addr))
  \/ NoServiceName(ToLower(addr))
  \/ cfg.DisableInterception

DialContextEntered == cpc = "idle" /\ cpc' # "idle"

PassedThrough ==
  /\ cpc' = "returned"
  /\ sysCalls' = Append(sysCalls, sysCall(network, addr))
  /\ ret' \in SysResults(addr)

\* C11: when the SRV lookup yields no usable target (no records or a
\* resolver error, or only records with an empty target), dialContext calls
\* the underlying dialer once with the caller's network and address and
\* returns that call's result; no health record is created or changed.
NoTargetPassesThrough ==
  [][(DialContextEntered /\ ~BypassCase /\ \A i \in 1..Len(srvList) : srvList[i].Target = "")
       => (PassedThrough /\ resolverCalls' = resolverCalls + 1 /\ health' = health)]_vars

\* an answer of empty-target records only, for an address in upper case,
\* with health records of another name in the cache
EmptyTargetsPassedThrough ==
  /\ cpc = "returned"
  /\ Len(srvList) > 0
  /\ resolverCalls = 1
  /\ addr # ToLower(addr)
  /\ sysCalls = <<sysCall(network, addr)>>
  /\ health = WarmHealth

\* C12: when the host is an IP literal or an unrecognized form, or the port
\* maps to no service name, or interception is disabled, dialContext
\* forwards to the underlying dialer with the caller's network and address,
\* makes no SRV lookup and leaves the SRV cache and the health cache
\* unchanged.
BypassForwards ==
  [][(DialContextEntered /\ BypassCase)
       => (PassedThrough /\ resolverCalls' = resolverCalls
           /\ srvStore' = srvStore /\ health' = health)]_vars

(***************************************************************************)
(* lookupSRV on the answers a resolver can give: every sequence of up to   *)
(* MaxRecords records, in any order, with empty targets, targets in upper  *)
(* and lower case, zero and nonzero weights.                               *)
(***************************************************************************)
MaxRecords == 3

PopRecords ==
  { netSRV(target, port, priority, weight) :
      target \in {"", "s1", "S1"}, port \in {4000, 4001},
      priority \in {0, 1}, weight \in {0, 3} }

PopAnswers == SeqsUpTo(PopRecords, MaxRecords)

PopInit == InitAnswer(PopAnswers) /\ InitCache /\ InitDial /\ InitEntry

\* bestTarget called on a view without groups
BestTargetNoGroups ==
  /\ Len(cesrv.priorities) = 0
  /\ BTBegin

PopNext ==
  \/ Lookup
  \/ BestTargetNoGroups

PopSpec == PopInit /\ [][PopNext]_vars

\* the records of the answer that have a target
WithTarget == { i \in 1..Len(srvList) : srvList[i].Target # "" }

Ascending(priorities) ==
  \A g \in 1..Len(priorities), h \in 1..Len(priorities) :
    g < h => priorities[g].priority < priorities[h].priority

WellFormed(priorities) ==
  /\ Ascending(priorities)
  /\ \A g \in 1..Len(priorities) :
       LET cep == priorities[g]
       IN  /\ Len(cep.targets) >= 1
           /\ \A i \in 1..Len(cep.targets) : cep.targets[i].weight > 0
           /\ cep.totalWeight = sumWeights(cep.targets)

\* C14: whatever the order of the resolver's records, the view lookupSRV
\* builds has its groups in strictly ascending priority (one group per
\* priority), each group has at least one target, every effective weight is
\* greater than zero and totalWeight is the sum of the group's weights.
ViewWellFormed ==
  /\ WellFormed(cesrv.priorities)
  /\ \A key \in DOMAIN srvStore : WellFormed(srvStore[key].priorities)

\* a view of two groups built from records in descending priority, with a
\* zero weight next to a nonzero one
UnsortedAnswerGrouped ==
  /\ qName \in DOMAIN srvStore
  /\ Len(cesrv.priorities) = 2
  /\ Len(srvList) = 3
  /\ srvList[1].Priority > srvList[3].Priority
  /\ \E g \in 1..2 : \E i, j \in 1..Len(cesrv.priorities[g].targets) :
       /\ cesrv.priorities[g].targets[i].weight = 3 * smallChanceMultiplier
       /\ cesrv.priorities[g].targets[j].weight = 3

\* the targets of a view, with their multiplicity
viewTargetCount(priorities) ==
  Cardinality({ <<g, i>> \in (1..MaxRecords + 1) \X (1..MaxRecords + 1) :
                  g <= Len(priorities) /\ i <= Len(priorities[g].targets) })

\* C15: records with an empty target contribute nothing to the view;
\* uniqueTargets is the number of distinct lowercased host:port values among
\* the records that have a target; a view built from empty-target records
\* only has no groups, and bestTarget returns nil for it.
EmptyTargetsIgnored ==
  /\ qName \in DOMAIN srvStore =>
       LET v == srvStore[qName]
       IN  /\ uniqueTargetKeys(v.priorities) =
                { <<ToLowerName(srvList[i].Target), srvList[i].Port>> : i \in WithTarget }
           /\ uniqueTargets(v) =
                Cardinality({ <<ToLowerName(srvList[i].Target), srvList[i].Port>> : i \in WithTarget })
           /\ viewTargetCount(v.priorities) = Cardinality(WithTarget)
           /\ (WithTarget = {} => Len(v.priorities) = 0)
  /\ (bt.pc = "ret" /\ Len(cesrv.priorities) = 0) => bt.res.path = "nil"

\* bestTarget has returned nil for the view of an answer of empty-target
\* records only
NilForEmptyTargets ==
  /\ qName \in DOMAIN srvStore
  /\ Len(srvList) = 2
  /\ WithTarget = {}
  /\ bt.pc = "ret"
  /\ bt.res.path = "nil"

\* the view installed by the lookup; its targets that came through populate
Installed == qName \in DOMAIN srvStore

\* C29: a newly built view expires FoundSRVTTL after the lookup when at
\* least one target survived population, and NotFoundSRVTTL after it when no
\* target did, also when the resolver's records were all dropped for their
\* empty target.
ViewExpiryBySurvivors ==
  Installed =>
    srvStore[qName].expires =
      now + (IF viewTargetCount(srvStore[qName].priorities) > 0
               THEN FoundSRVTTL ELSE NotFoundSRVTTL)

\* the records of the answer that make the group of priority p, in the order
\* populate meets them
groupRecords(p) ==
  LET inGroup(srv) == srv.Target # "" /\ srv.Priority = p
  IN  SelectSeq(srvList, inGroup)

RECURSIVE sumSRVWeights(_)
sumSRVWeights(srvs) ==
  IF srvs = <<>> THEN 0 ELSE srvs[1].Weight + sumSRVWeights(Tail(srvs))

\* the least n with n * z >= s
ceilDiv(s, z) == CHOOSE n \in 0..s : n * z >= s /\ (n = 0 \/ (n - 1) * z < s)

\* C30: in a group with Z > 0 zero-weight targets and S the sum of the
\* records' weights, every zero-weight target has the effective weight
\* max(1, ceil(S / Z)), every other target 1000 times its weight, and the
\* group's totalWeight is 1000 * S plus the weight given to each zero-weight
\* target.
VerySmallWeights ==
  Installed =>
    \A g \in 1..Len(srvStore[qName].priorities) :
      LET cep == srvStore[qName].priorities[g]
          recs == groupRecords(cep.priority)
          S == sumSRVWeights(recs)
          Z == Cardinality({ i \in 1..Len(recs) : recs[i].Weight = 0 })
          verySmall == IF ceilDiv(S, Z) > 1 THEN ceilDiv(S, Z) ELSE 1
      IN  Z > 0 =>
            /\ Len(cep.targets) = Len(recs)
            /\ \A i \in 1..Len(recs) :
                 cep.targets[i].weight =
                   IF recs[i].Weight = 0 THEN verySmall
                   ELSE recs[i].Weight * smallChanceMultiplier
            /\ cep.totalWeight = S * smallChanceMultiplier + Z * verySmall

\* a group of one record of weight 3 and two of weight 0: the zero weights
\* became 2, the group's total 3004
ZeroWeightsRoundedUp ==
  /\ Installed
  /\ Len(srvStore[qName].priorities) = 1
  /\ srvStore[qName].priorities[1].totalWeight = 3 * smallChanceMultiplier + 4
  /\ \E i \in 1..3 : srvStore[qName].priorities[1].targets[i].weight = 2

(***************************************************************************)
(* The lifetime of cache entries: lookups, recorded dials and probes       *)
(* while the clock runs past the expirations, the resolver's answer        *)
(* changes and the two cleaners sweep.                                     *)
(***************************************************************************)
MaxLate == 6
MaxLookups == 3

AnswerOne == << netSRV("s1", 4000, 0, 1) >>
AnswerTwo == << netSRV("s1", 4000, 0, 1), netSRV("s2", 4001, 0, 1) >>
TtlAnswers == { <<>>, AnswerOne }
SweepAnswers == { AnswerOne, AnswerTwo }

TtlInit == InitAnswer(TtlAnswers) /\ InitCache /\ InitDial /\ InitEntry

\* the clock, running past the expirations
LateTick ==
  /\ now < MaxLate
  /\ now' = now + 1
  /\ ctxErr' = deadlineErr(now + 1)
  /\ UNCHANGED <<dns, srvStore, health, cesrv, bt, otherDials, vetoUntil>>
  /\ UNCHANGED <<cpc, ctxDeadline, wpc, dupes, wsrv, lastError, dialed, wres, returned, ret>>
  /\ UNCHANGED extVars

\* the DNS answer for qName changes
DNSChange(answer) ==
  /\ answer # srvList
  /\ srvList' = answer
  /\ dns' = populate(answer)
  /\ UNCHANGED <<now, srvStore, health, cesrv, bt, otherDials, vetoUntil>>
  /\ UNCHANGED dialVars
  /\ UNCHANGED <<entryVars, resolverCalls, prober>>

\* a lookupSRV call, counted
CountedLookup ==
  /\ srvLookups < MaxLookups
  /\ lookupSRV
  /\ srvLookups' = srvLookups + 1
  /\ UNCHANGED <<now, dns, bt, otherDials, vetoUntil>>
  /\ UNCHANGED dialVars
  /\ UNCHANGED <<addr, hostPort, cfg, sysCalls, srvList, orphans, concVars, stats, ht>>

TtlNext ==
  \/ LateTick
  \/ \E answer \in TtlAnswers : DNSChange(answer)
  \/ CountedLookup
  \/ SrvCleaner
  \/ HealthCleaner
  \/ \E key \in AllKeys, ok \in BOOLEAN : OtherDial(key, ok)
  \/ \E key \in AllKeys, unhealthy \in BOOLEAN : ProbeResult(key, unhealthy)

TtlSpec == TtlInit /\ [][TtlNext]_vars

\* the cleaners are goroutines woken by their tickers for as long as the
\* program runs
TtlLiveSpec == TtlInit /\ [][TtlNext]_vars /\ WF_vars(SrvCleaner) /\ WF_vars(HealthCleaner)

LookupCalled == srvLookups' = srvLookups + 1

\* C16: of two successive lookupSRV calls for a name whose entry is still
\* cached before the second, only the first consults the resolver, and the
\* second returns the view the first installed; this holds for an entry
\* without targets too, whatever the DNS answers by then.
CachedViewReturned ==
  [][/\ (LookupCalled /\ qName \in DOMAIN srvStore)
          => (cesrv' = srvStore[qName] /\ srvStore' = srvStore
              /\ resolverCalls' = resolverCalls)
     /\ (LookupCalled /\ qName \notin DOMAIN srvStore)
          => (cesrv' = srvStore'[qName] /\ resolverCalls' = resolverCalls + 1)
     /\ (qName \in DOMAIN srvStore /\ qName \in DOMAIN srvStore')
          => srvStore'[qName] = srvStore[qName]]_vars

\* a second call has returned the cached view without targets although the
\* DNS has records by now
NotFoundServedFromCache ==
  /\ srvLookups = 2
  /\ resolverCalls = 1
  /\ qName \in DOMAIN srvStore
  /\ cesrv = srvStore[qName]
  /\ Len(cesrv.priorities) = 0
  /\ Len(srvList) > 0

ExpiredSRV == qName \in DOMAIN srvStore /\ srvStore[qName].expires < now
ExpiredHealth(key) == key \in DOMAIN health /\ health[key].expires < now

\* C17: with the cleaners running, every SRV entry and every health record
\* is deleted once the time is past its expiration, however often it is
\* looked up, dialed or probed in between: no operation changes the
\* expiration of an entry; the lookup after the deletion asks the DNS again.
ExpiredEntriesDeleted ==
  /\ [][/\ (qName \in DOMAIN srvStore /\ qName \in DOMAIN srvStore')
             => srvStore'[qName].expires = srvStore[qName].expires
        /\ \A key \in AllKeys :
             (key \in DOMAIN health /\ key \in DOMAIN health')
               => health'[key].expires = health[key].expires
        /\ (LookupCalled /\ qName \notin DOMAIN srvStore)
             => resolverCalls' = resolverCalls + 1]_vars
  /\ ExpiredSRV ~> (qName \notin DOMAIN srvStore)
  /\ \A key \in AllKeys : ExpiredHealth(key) ~> (key \notin DOMAIN health)

\* the entry was deleted after lookups and dials, and looked up again
LookedUpAfterDeletion ==
  /\ resolverCalls = 2
  /\ srvLookups = 3
  /\ otherDials > 0
  /\ qName \in DOMAIN srvStore
  /\ srvStore[qName].expires > MaxLate

\* the sweeps of both caches over views of one and of two targets
SweepInit == InitAnswer(SweepAnswers) /\ InitCache /\ InitDial /\ InitEntry

SweepNext ==
  \/ LateTick
  \/ \E answer \in SweepAnswers : DNSChange(answer)
  \/ CountedLookup
  \/ SrvCleaner
  \/ HealthCleaner
  \/ \E key \in AllKeys, ok \in BOOLEAN : OtherDial(key, ok)

SweepSpec == SweepInit /\ [][SweepNext]_vars

Swept(store, t) == [k \in { x \in DOMAIN store : ~(store[x].expires < t) } |-> store[k]]

\* entries leave a cache
Shrinks(old, new) == \E k \in DOMAIN old : k \notin DOMAIN new

\* C18: a sweep of a cleaner at now deletes exactly the entries whose
\* expiration is before now and leaves every other entry and its fields
\* unchanged, in the SRV cache and in the health cache.
SweepDeletesExpiredOnly ==
  [][/\ Shrinks(srvStore, srvStore') => srvStore' = Swept(srvStore, now)
     /\ Shrinks(health, health') => health' = Swept(health, now)]_vars

\* a sweep has deleted the expired record of one target of the cached view
\* and left the record of the other
ExpiredRecordSwept ==
  /\ qName \in DOMAIN srvStore
  /\ \E k1, k2 \in uniqueTargetKeys(srvStore[qName].priorities) :
       /\ k1 \notin DOMAIN health
       /\ k2 \in DOMAIN health
       /\ health[k2].goodDials + health[k2].failedDials > 0

\* the step of a lookup that asked the resolver
Resolved == resolverCalls' = resolverCalls + 1

\* C22: populateHealthStore(now, keys) creates for every listed key without
\* a record a record that expires at now + HealthTTL, with zero counters, a
\* zero nextDialAttempt and unHealthy false, and leaves every record that is
\* already in the cache as it is.
PopulateFrame ==
  [][ Resolved =>
        /\ DOMAIN health' = DOMAIN health \cup uniqueTargetKeys(dns)
        /\ \A k \in DOMAIN health : health'[k] = health[k]
        /\ \A k \in uniqueTargetKeys(dns) \ DOMAIN health :
             health'[k] = [expires |-> now + HealthTTL, goodDials |-> 0, failedDials |-> 0,
                           nextDialAttempt |-> zeroTime, lastDialStatus |-> "",
                           unHealthy |-> FALSE] ]_vars

\* a second lookup found the record of s1:4000 with a failed dial on it and
\* created the record of s2:4001
PopulatedPresentAndAbsent ==
  /\ resolverCalls >= 2
  /\ DOMAIN health = {<<"s1", 4000>>, <<"s2", 4001>>}
  /\ health[<<"s1", 4000>>].failedDials > 0
  /\ health[<<"s2", 4001>>].expires > health[<<"s1", 4000>>].expires
  /\ health[<<"s2", 4001>>].goodDials + health[<<"s2", 4001>>].failedDials = 0

(***************************************************************************)
(* fetchAndRunHealthCheck, GET by GET.  The outcome of a GET is a          *)
(* transport error, or a response with a status and a body that is read    *)
(* in full or fails to be read.                                            *)
(***************************************************************************)
StatusOK == 200
StatusInternalServerError == 500

transportError == [kind |-> "error", status |-> 0, bodyRead |-> FALSE, bodyOk |-> FALSE]

\* bodyOk: the body the server sends contains HealthCheckContentOk
Responses ==
  { [kind |-> "response", status |-> st, bodyRead |-> rd, bodyOk |-> ok] :
      st \in {StatusOK, StatusInternalServerError}, rd \in BOOLEAN, ok \in BOOLEAN }

GetOutcomes == {transportError} \cup Responses

\* the record after the outcome r of a GET
probeRecord(ceh, r) ==
  IF r.kind = "error" THEN [ceh EXCEPT !.unHealthy = TRUE]
  ELSE IF ~r.bodyRead THEN ceh
  ELSE [ceh EXCEPT !.unHealthy = ~(r.status = StatusOK /\ r.bodyOk)]

\* a prober that goes on after a transport error
probeLoopKeepsRunning(pr, r) ==
  [pr EXCEPT !.pc = "running", !.resp = r]

\* the prober after the outcome r of a GET
probeLoop(pr, r) ==
  [pr EXCEPT !.pc = IF r.kind = "error" THEN "exited" ELSE "running", !.resp = r]

\* a wake-up test that never finds the record expired
probeExpiredNever(expires, t) == FALSE

\* the test the prober makes at each wake-up, on its copy of expires
probeExpired(expires, t) == expires < t

\* One turn of the prober's loop: the record has not expired, the GET is made
\* and its outcome handled.
HealthCheck(key, r) ==
  /\ ~DisableHealthChecks
  /\ healthLockFree
  /\ key \in DOMAIN health
  /\ prober[key].pc = "running"
  /\ ~probeExpired(health[key].expires, now)
  /\ health' = [health EXCEPT ![key] = probeRecord(@, r)]
  /\ prober' = [prober EXCEPT ![key] = probeLoop(@, r)]
  /\ UNCHANGED <<now, dns, srvStore, cesrv, bt, otherDials, vetoUntil>>
  /\ UNCHANGED dialVars
  /\ UNCHANGED <<entryVars, srvList, resolverCalls>>

\* The prober wakes up after the record's expiration and returns.
HealthCheckExpired(key) ==
  /\ key \in DOMAIN health
  /\ prober[key].pc = "running"
  /\ probeExpired(health[key].expires, now)
  /\ prober' = [prober EXCEPT ![key].pc = "exited"]
  /\ UNCHANGED cacheVars
  /\ UNCHANGED dialVars
  /\ UNCHANGED <<entryVars, srvList, resolverCalls>>

\* No TXT record, an empty URL or one that does not parse: the prober
\* returns before its first GET.
HealthCheckNoURL(key) ==
  /\ key \in DOMAIN health
  /\ prober[key].pc = "running"
  /\ prober[key].resp = noResponse
  /\ prober' = [prober EXCEPT ![key].pc = "exited"]
  /\ UNCHANGED cacheVars
  /\ UNCHANGED dialVars
  /\ UNCHANGED <<entryVars, srvList, resolverCalls>>

\* A wake-up of a prober whose record the cleaner has deleted: the same
\* loop, run on the goroutine's own copy of expires and its own pointer to
\* the record.
OrphanWakes(o, r) ==
  /\ o \in orphans
  /\ o.pr.pc = "running"
  /\ orphans' = (orphans \ {o}) \cup
                   { [o EXCEPT !.pr = IF probeExpired(o.expires, now)
                                        THEN [o.pr EXCEPT !.pc = "exited"]
                                        ELSE probeLoop(o.pr, r)] }
  /\ UNCHANGED cacheVars
  /\ UNCHANGED dialVars
  /\ UNCHANGED <<addr, hostPort, cfg, sysCalls, srvLookups, srvList, resolverCalls, prober, ht, stats, concVars>>

ProbeAnswers == { AnswerOne }

\* health checks enabled (the default) and disabled
ProbeConfigs == { defaultConfig, [defaultConfig EXCEPT !.DisableHealthChecks = TRUE] }

ProbeInit ==
  /\ InitAnswer(ProbeAnswers) /\ InitCache /\ InitDial
  /\ \E config \in ProbeConfigs : InitEntryOf(config)

ProbeNext ==
  \/ Tick
  \/ Lookup
  \/ SrvCleaner
  \/ HealthCleaner
  \/ \E key \in AllKeys, ok \in BOOLEAN : OtherDial(key, ok)
  \/ \E key \in AllKeys, r \in GetOutcomes : HealthCheck(key, r)
  \/ \E key \in AllKeys : HealthCheckExpired(key)
  \/ \E key \in AllKeys : HealthCheckNoURL(key)
  \/ \E o \in orphans, r \in GetOutcomes : OrphanWakes(o, r)

ProbeSpec == ProbeInit /\ [][ProbeNext]_vars

\* the prober of key has handled the outcome of a GET in this step
Probed(key) ==
  /\ key \in DOMAIN prober
  /\ key \in DOMAIN prober'
  /\ prober'[key].resp # noResponse
  /\ prober'[key].resp # prober[key].resp

NotOK(r) == r.status # StatusOK \/ ~r.bodyOk

\* C19: after every probe response the record's unhealthy flag is
\* (status is not 200 or the body lacks HealthCheckContentOk) and the prober
\* goes on looping; so a target that was unhealthy is eligible again after
\* a later OK response, unless a dial veto is in force.
ProbeVerdictStored ==
  [][\A key \in AllKeys :
       (Probed(key) /\ prober'[key].resp.kind = "response")
         => /\ health'[key].unHealthy = NotOK(prober'[key].resp)
            /\ prober'[key].pc = "running"
            /\ (~NotOK(prober'[key].resp)
                  => (isGood(health'[key], now) <=> ~(health'[key].nextDialAttempt > now)))]_vars

\* C20: after a transport-level probe failure the record is unhealthy and
\* its prober has exited; the flag then stays true under every operation,
\* successful dials included, for as long as the record is in the cache.
TransportErrorIsFinal ==
  [][\A key \in AllKeys :
       /\ (Probed(key) /\ prober'[key].resp.kind = "error")
            => (health'[key].unHealthy /\ prober'[key].pc = "exited")
       /\ (key \in DOMAIN health /\ prober[key].resp.kind = "error" /\ key \in DOMAIN health')
            => (health'[key].unHealthy /\ prober'[key] = prober[key])]_vars

\* a dial to the target succeeded after the transport error of its prober
GoodDialAfterTransportError ==
  \E key \in DOMAIN health :
    /\ prober[key].resp.kind = "error"
    /\ prober[key].pc = "exited"
    /\ health[key].goodDials > 0
    /\ health[key].unHealthy

\* the prober of key's record woke up in this step
WokeUp(key) ==
  /\ key \in DOMAIN health
  /\ key \in DOMAIN prober'
  /\ prober'[key] # prober[key]

\* C21: a prober that wakes up after its record's expiration issues no GET
\* and exits, at its first such wake-up, whether the record is still in the
\* cache or the cleaner has deleted it already.
NoGetAfterExpiration ==
  [][ /\ \A key \in AllKeys :
           (WokeUp(key) /\ health[key].expires < now)
             => /\ prober'[key].pc = "exited"
                /\ prober'[key].resp = prober[key].resp
      /\ \A o \in orphans :
           (o \notin orphans' /\ o.expires < now)
             => [o EXCEPT !.pr.pc = "exited"] \in orphans' ]_vars

\* a prober that had read a response left its loop after the expiration of
\* its record, and so did a prober whose record had been deleted
ExitedInCache ==
  \E key \in DOMAIN health :
    /\ health[key].expires < now
    /\ prober[key].pc = "exited"
    /\ prober[key].resp.kind = "response"

ExitedAfterDeletion == \E o \in orphans : o.pr.pc = "exited" /\ o.expires < now

ExitedAfterExpiration == ExitedInCache \/ ExitedAfterDeletion

\* C23: under every interleaving of populateHealthStore and setDialResult
\* calls (and of the cleaner) every record in the cache has had exactly one
\* prober started for it, at its creation; with DisableHealthChecks no
\* prober is ever started.
OneProberPerRecord ==
  /\ DOMAIN prober = DOMAIN health
  /\ \A key \in DOMAIN health :
       IF cfg.DisableHealthChecks
         THEN prober[key].started = 0 /\ prober[key].pc = "off"
         ELSE prober[key].started = 1
  /\ cfg.DisableHealthChecks => orphans = {}
  /\ \A o \in orphans : o.pr.started = 1

\* a record made for a key whose earlier record the cleaner had deleted while
\* its prober ran: the new record has its own prober, dials are recorded
ProberOfRecreatedRecord ==
  \E key \in DOMAIN health :
    /\ \E o \in orphans : o.key = key
    /\ health[key].goodDials + health[key].failedDials > 0
    /\ prober[key].started = 1


(***************************************************************************)
(* The error of an exhausted dial.                                         *)
(***************************************************************************)
lastDialed == dialed[Len(dialed)]

\* C25: the 'All unique targets failed' error names the original address,
\* the last endpoint that was dialed, the number of underlying dial calls of
\* this dial and the message of the last underlying error.
AllFailedNamesLastDialed ==
  wres.err.kind = AllFailed =>
    /\ wres.err.address = address
    /\ wres.err.newAddress = lastDialed
    /\ wres.err.tried = Len(dialed)
    /\ wres.err.lastError = ErrorText(dialErrAt(lastDialed))

\* the same without the endpoint
AllFailedCountsAndLastError ==
  wres.err.kind = AllFailed =>
    /\ wres.err.address = address
    /\ wres.err.tried = Len(dialed)
    /\ wres.err.lastError = ErrorText(dialErrAt(lastDialed))

(***************************************************************************)
(* The order of the steps of dialIterate.                                  *)
(***************************************************************************)
\* the attempt in flight ends in this step
AttemptEnds == wpc = "dialing" /\ wpc' # "dialing"

wkey == makeHealthStoreKey(wsrv.Target, wsrv.Port)

dialCount(h, key) == IF key \in DOMAIN h THEN h[key].goodDials + h[key].failedDials ELSE 0

\* C28: the attempts of one dial are strictly sequential: a dial is started
\* only when none is in flight; the outcome of an attempt is in the health
\* cache when the attempt ends, that is before the next candidate is selected
\* and before a connection is handed to the caller; after the first success
\* no further dial is made.
AttemptsSequentialAndRecorded ==
  [][ /\ dialed' # dialed =>
           /\ wpc = "select" /\ wpc' = "dialing"
           /\ dialed' = Append(dialed, newAddressOf(wsrv'))
      /\ AttemptEnds =>
           /\ wpc' \in {"select", "send"}
           /\ wkey \in DOMAIN health'
           /\ dialCount(health', wkey) = dialCount(health, wkey) + 1
           /\ wpc' = "select" =>
                /\ health'[wkey].nextDialAttempt = now + DialVetoDuration
                /\ health'[wkey].lastDialStatus # ""
           /\ wpc' = "send" =>
                /\ wres'.conn = newAddressOf(wsrv)
                /\ health'[wkey].goodDials = dialCount(health, wkey) + 1 - health'[wkey].failedDials
                /\ health'[wkey].goodDials >= 1
                /\ health'[wkey].nextDialAttempt = zeroTime
                /\ health'[wkey].lastDialStatus = ""
      /\ (wpc \in {"send", "closing", "done"} \/ wres.conn # nilConn) => dialed' = dialed ]_vars

\* the second attempt succeeded: both outcomes are in the health cache and
\* the connection is the caller's
DeliveredAfterRecording ==
  /\ cpc = "returned"
  /\ Len(dialed) = 2
  /\ ret.conn = dialed[2]
  /\ dialed[1] \in DOMAIN health /\ health[dialed[1]].failedDials = 1
  /\ dialed[2] \in DOMAIN health /\ health[dialed[2]].goodDials = 1

(***************************************************************************)
(* The end of dialIterate.  With the goroutines scheduled and an           *)
(* underlying dialer that returns (it honours the context, which always    *)
(* has a deadline), every step of the worker that is possible is taken.    *)
(***************************************************************************)
WorkerLiveSpec ==
  /\ Init
  /\ [][Next]_vars
  /\ WF_vars(DialSelect)
  /\ WF_vars(WorkerSelect)
  /\ WF_vars(\E ok \in BOOLEAN : WorkerDialDone(ok))
  /\ WF_vars(WorkerClose)

\* C24: in every execution of an intercepted dial (success, exhaustion,
\* deadline, cancellation) the worker eventually returns and closes the
\* result channel.
WorkerTerminates == (wpc # "none") ~> (wpc = "done" /\ returned.closed)

\* a worker that has a result to send after dialContext returned stays at
\* the send
SendWithoutReceiver ==
  [][(wpc = "send" /\ cpc = "returned") => (wpc' = "send" /\ ~returned'.closed)]_vars

(***************************************************************************)
(* A dial that starts with every target under a dial veto                  *)
(* (TestDialExhaustUniqueTargets): the view of three targets is cached,    *)
(* each target has one failed dial on its record, and the dialer fails.    *)
(***************************************************************************)
\* the first instant at which the records made at the clock's start have
\* expired; the failures were recorded one unit before it or at it
VetoStart == 1 + HealthTTL + 1
FailureTimes == {VetoStart - 1, VetoStart}

RECURSIVE failedAt(_, _, _)
failedAt(h, keys, f) ==
  IF keys = {} THEN h
  ELSE LET key == CHOOSE k \in keys : TRUE
       IN  failedAt(setDialResult(h, f[key], key[1], key[2], FALSE), keys \ {key}, f)

VetoInit ==
  /\ InitAnswer({AnswerFlat})
  /\ InitDial
  /\ addr = <<>>
  /\ hostPort = noHostPort
  /\ cfg = defaultConfig
  /\ sysCalls = <<>>
  /\ resolverCalls = 1
  /\ srvLookups = 0
  /\ orphans = {}
  /\ stats = zeroStats
  /\ InitConc
  /\ ht = enable(transport(defaultDialContext))
  /\ now = VetoStart
  /\ srvStore = Put(emptyMap, qName, resolvedSRV(1))
  /\ cesrv = emptySRV
  /\ bt = idleBT
  /\ otherDials = 0
  /\ \E f \in [AllKeys -> FailureTimes] :
       /\ health = failedAt(populateHealthStore(emptyMap, 1, AllKeys), AllKeys, f)
       /\ vetoUntil = [k \in AllKeys |-> f[k] + DialVetoDuration]
  /\ prober = probersOf(emptyMap, health)

underVeto(key) == key \in DOMAIN health /\ health[key].nextDialAttempt > now

\* dialContext called while no target is eligible
VetoedDialStart ==
  /\ \A key \in uniqueTargetKeys(dns) : underVeto(key)
  /\ \E deadline \in CallerDeadlines(now) : DialStart(deadline)

\* the outcomes of the underlying dialer: it always fails
MockDialerOutcomes == {FALSE}

VetoNext ==
  \/ LateTick
  \/ HealthCleaner
  \/ VetoedDialStart
  \/ WorkerSelect
  \/ \E ok \in MockDialerOutcomes : WorkerDialDone(ok)
  \/ DialSelectResult
  \/ DialSelectCtx
  \/ WorkerClose

VetoSpec == VetoInit /\ [][VetoNext]_vars

\* C27: a dial that starts with every target under a dial veto, with a
\* dialer that always fails, dials the targets in ascending order of the
\* nextDialAttempt they had at the start, each exactly once, and ends with
\* the 'All unique targets failed' error once all of them were dialed.
VetoedDialAscending ==
  [][ /\ dialed' # dialed =>
           \A key \in uniqueTargetKeys(dns) \ dupes :
             vetoUntil[dialed'[Len(dialed')]] <= vetoUntil[key]
      /\ wpc' = "send" =>
           /\ wres'.err.kind = AllFailed
           /\ Len(dialed') = Cardinality(uniqueTargetKeys(dns))
           /\ dupes' = uniqueTargetKeys(dns) ]_vars

\* the same for the dials during which the clock does not advance
VetoedDialAscendingAtOnce ==
  [][ now' = VetoStart =>
        /\ dialed' # dialed =>
             \A key \in uniqueTargetKeys(dns) \ dupes :
               vetoUntil[dialed'[Len(dialed')]] < vetoUntil[key]
                 \/ vetoUntil[dialed'[Len(dialed')]] = vetoUntil[key] ]_vars

(***************************************************************************)
(* Enable and the function the intercept forwards to.                      *)
(***************************************************************************)
\* C26: after Enable(transport) every connection request cslb does not
\* redirect is forwarded to the dial function that was the transport's
\* DialContext hook when Enable was called.
ForwardsToPriorHook ==
  \A i \in 1..Len(sysCalls) : sysCalls[i].dialer = ht.prior

(***************************************************************************)
(* An abandoned dial: dialContext has returned through ctx.Done() while    *)
(* dialIterate is still running.                                           *)
(***************************************************************************)
ContextErrors == {"context canceled", "context deadline exceeded"}

abandoned == cpc = "returned" /\ ret.err.kind \in ContextErrors

\* C38: once dialContext has returned because its context was cancelled or
\* its deadline expired, dialIterate starts no further underlying dial and
\* records no outcome of a dial it starts afterwards.
AbandonedWorkerStops ==
  [][ abandoned => /\ dialed' = dialed
                   /\ wpc' = "dialing" => wpc = "dialing" ]_vars

\* C39: a connection the underlying dialer establishes during an intercepted
\* dial is the connection dialContext returns to its caller.
EstablishedConnReturned ==
  (cpc = "returned" /\ wres.conn # nilConn) => ret.conn = wres.conn

(***************************************************************************)
(* The statistics of the intercept.                                        *)
(***************************************************************************)
deadlineExpired == cpc = "returned" /\ ret.err.kind = "context deadline exceeded"

\* C36: an intercepted dial that returns because the deadline of its context
\* expired has added one to the Deadline statistic.
DeadlineCounted == deadlineExpired => stats.Deadline = 1

\* every dialContext call that returned is counted once as a call, and the
\* Deadline statistic is never more than the calls counted
CallsCounted ==
  /\ cpc \in {"returned", "panicked"} => stats.DialContext = 1
  /\ stats.Deadline <= stats.DialContext

(***************************************************************************)
(* The age of the view lookupSRV returns.                                  *)
(***************************************************************************)
\* C37: lookupSRV never returns a view whose expiration is before the now
\* of the call: an expired entry the cleaner has not yet swept is resolved
\* again.
NoExpiredViewReturned ==
  [][ LookupCalled => /\ ~(cesrv'.expires < now)
                      /\ (qName \in DOMAIN srvStore /\ srvStore[qName].expires < now)
                           => resolverCalls' = resolverCalls + 1 ]_vars

\* the view a lookup returns is the one the cache holds after the call
ReturnedViewIsCached ==
  [][ LookupCalled => (qName \in DOMAIN srvStore' /\ cesrv' = srvStore'[qName]) ]_vars

(***************************************************************************)
(* The weight on the descriptor bestTarget returns, for SRV weights over   *)
(* the whole range of a uint16.                                            *)
(***************************************************************************)
WeightSamples == {0, 1, 65, 66, 65535}

WeightAnswers ==
  { << netSRV("s1", 4000, 0, w) >> : w \in WeightSamples }
    \cup { << netSRV("s1", 4000, 0, w), netSRV("s2", 4001, 0, v) >> :
             w \in WeightSamples, v \in WeightSamples }

WeightInit == InitAnswer(WeightAnswers) /\ InitCache /\ InitDial /\ InitEntry

\* randIntn(cep.totalWeight) at the two ends of its range, per priority group
RECURSIVE edgeDrawsFrom(_, _)
edgeDrawsFrom(priorities, g) ==
  IF g > Len(priorities) THEN { <<>> }
  ELSE { <<r>> \o rest : r \in {0, priorities[g].totalWeight - 1},
                          rest \in edgeDrawsFrom(priorities, g + 1) }

\* one bestTarget call on the view lookupSRV returned
BestTargetCall ==
  /\ bt.pc = "idle"
  /\ Len(cesrv.priorities) > 0
  /\ \E draws \in edgeDrawsFrom(cesrv.priorities, 1) :
       bt' = [pc |-> "ret", now |-> now, draws |-> draws,
              res |-> bestTarget(cesrv, health, now, draws)]
  /\ UNCHANGED <<now, dns, srvStore, health, cesrv, otherDials, vetoUntil>>
  /\ UNCHANGED dialVars
  /\ UNCHANGED extVars

WeightNext ==
  \/ Lookup
  \/ BestTargetCall
  \/ BTReturn

WeightSpec == WeightInit /\ [][WeightNext]_vars

\* the SRV weights the resolver gave for the endpoint of srv
originalWeights(srv) ==
  { srvList[i].Weight : i \in { j \in 1..Len(srvList) :
        srvList[j].Target = srv.Target /\ srvList[j].Port = srv.Port } }

\* C32: the weight on the descriptor bestTarget returns is the effective
\* weight divided by 1000, which for every nonzero original SRV weight in
\* 1..65535 is the original weight.
ReturnedWeightIsOriginal ==
  (bt.pc = "ret" /\ bt.res.path # "nil") =>
     /\ bt.res.srv.Weight =
          cesrv.priorities[bt.res.gi].targets[bt.res.ti].weight \div smallChanceMultiplier
     /\ \A w \in originalWeights(bt.res.srv) : w # 0 => bt.res.srv.Weight = w

\* the same for the original weights whose thousandfold fits in 16 bits
SmallWeightReturned ==
  (bt.pc = "ret" /\ bt.res.path # "nil") =>
     \A w \in originalWeights(bt.res.srv) :
       (w # 0 /\ w * smallChanceMultiplier < 65536) => bt.res.srv.Weight = w

(***************************************************************************)
(* A group of one target of SRV weight 1 and one of SRV weight 0: the      *)
(* first group of the view of SelSpec.                                     *)
(***************************************************************************)
\* bestTarget is about to draw and both targets of the first group are eligible
OneAndZeroGroup ==
  /\ bt.pc = "first"
  /\ Len(cesrv.priorities[1].targets) = 2
  /\ \A i \in TargetIndexes(1) : EligibleAt(1, i)

\* the number of draws r of the first group for which target i is returned
drawsSelecting(i) ==
  Cardinality({ d \in Draws(cesrv) :
                  LET b == bestTarget(cesrv, health, bt.now, d)
                  IN  b.gi = 1 /\ b.ti = i })

\* C31: in a group of one weight-1 and one weight-0 target the zero-weight
\* target has effective weight 1 next to the 1000 of the other, so of the
\* 1001 possible draws r one selects the zero-weight target and 1000 select
\* the weight-1 target.
ZeroWeightOneInThousand ==
  OneAndZeroGroup =>
    /\ cesrv.priorities[1].targets[1].weight = smallChanceMultiplier
    /\ cesrv.priorities[1].targets[2].weight = 1
    /\ cesrv.priorities[1].totalWeight = smallChanceMultiplier + 1
    /\ drawsSelecting(1) = smallChanceMultiplier
    /\ drawsSelecting(2) = 1

\* the statement as the specification has it: effective weight 1 and each of
\* the two targets selected by roughly half of the possible draws
ZeroWeightHalfShare ==
  OneAndZeroGroup =>
    /\ cesrv.priorities[1].targets[2].weight = 1
    /\ \A i \in TargetIndexes(1) :
         2 * drawsSelecting(i) \in (cesrv.priorities[1].totalWeight - 1)
                                   .. (cesrv.priorities[1].totalWeight + 1)

\* the one draw of the zero-weight target came up
ZeroWeightDrawn ==
  /\ Returning
  /\ bt.res.path = "preferred"
  /\ bt.res.gi = 1 /\ bt.res.ti = 2
  /\ bt.draws[1] = smallChanceMultiplier

(***************************************************************************)
(* lookupSRV, setDialResult, bestTarget, the probers and the cleaners      *)
(* running at the same time.  A call to the outside (the resolver, the     *)
(* underlying dialer, the GET of a prober) is a position of its goroutine: *)
(* the call is in flight while the goroutine is there.                     *)
(***************************************************************************)
restVars == <<addr, hostPort, cfg, sysCalls, srvList, resolverCalls, prober, srvLookups,
              orphans, ht, stats>>

dialKey == makeHealthStoreKey("s1", 4000)

hcURL == "http://s1/health"

\* sync.RWMutex: RLock waits for the writer, Lock for the writer and the readers
canRLock(m) == m.writers = {}

\* a Lock that waits for nobody
canLockAlways(m) == TRUE

canLock(m) == m.writers = {} /\ m.readers = {}

\* the lookups of a cache miss that keep the shared lock during the DNS lookup
holdAcrossLookup(m, g) == m

\* t.srvStore.RUnlock() before the DNS lookup
releaseBeforeLookup(m, g) == [m EXCEPT !.readers = @ \ {g}]

newCeh(key, t) ==
  [key |-> key, expires |-> t + HealthTTL, goodDials |-> 0, failedDials |-> 0,
   nextDialAttempt |-> zeroTime, lastDialStatus |-> "", unHealthy |-> FALSE,
   url |-> "", lastHealthCheckStatus |-> ""]

\* go t.fetchAndRunHealthCheck(healthStoreKey, ceh); late is history: the
\* goroutine's last write was made while the cache held another record, or
\* none, under its key
newHealthCheck(key, ceh) ==
  [pc |-> IF DisableHealthChecks THEN "off" ELSE "txt", key |-> key, ceh |-> ceh,
   expires |-> zeroTime, late |-> FALSE]

\* the body of the loops of populateHealthStore and of setDialResult's
\* 'if ceh == nil': st is the heap, the cache and the probers
ensure(st, key, t) ==
  IF key \in DOMAIN st.hcache THEN st
  ELSE [heap |-> Append(st.heap, newCeh(key, t)),
        hcache |-> Put(st.hcache, key, Len(st.heap) + 1),
        hcs |-> Append(st.hcs, newHealthCheck(key, Len(st.heap) + 1))]

RECURSIVE ensureAll(_, _, _)
ensureAll(st, keys, t) ==
  IF keys = {} THEN st
  ELSE LET key == CHOOSE k \in keys : TRUE
       IN  ensureAll(ensure(st, key, t), keys \ {key}, t)

healthState == [heap |-> heap, hcache |-> hcache, hcs |-> hcs]

\* the view lookupSRV builds from the resolver's answer
newView(g, answer, t) ==
  [nil |-> FALSE, by |-> g,
   expires |-> t + (IF Len(answer) > 0 THEN FoundSRVTTL ELSE NotFoundSRVTTL),
   priorities |-> populate(answer), lookups |-> 1]

\* an insert that leaves an entry another goroutine has stored meanwhile
storeViewIfAbsent(c, key, view) == IF key \in DOMAIN c THEN c ELSE Put(c, key, view)

\* t.srvStore.cache[key] = cesrv
storeView(c, key, view) == Put(c, key, view)

ConcAnswers == { <<>>, AnswerOne }

\* lookupSRV: RLock and the read of the cache
LkRLock(g) ==
  /\ gor[g].pc = "idle"
  /\ canRLock(mu.srv)
  /\ mu' = [mu EXCEPT !.srv.readers = @ \cup {g}]
  /\ gor' = [gor EXCEPT ![g].pc = "rlocked", ![g].t = now,
                        ![g].view = IF qName \in DOMAIN scache THEN scache[qName] ELSE nilView]
  /\ UNCHANGED <<heap, hcache, scache, installs, hcs>>
  /\ UNCHANGED <<cacheVars, dialVars, restVars>>

\* the entry exists: it is counted and returned
LkHit(g) ==
  /\ gor[g].pc = "rlocked"
  /\ ~gor[g].view.nil
  /\ scache' = IF qName \in DOMAIN scache /\ scache[qName].by = gor[g].view.by
                 THEN [scache EXCEPT ![qName].lookups = @ + 1] ELSE scache
  /\ mu' = [mu EXCEPT !.srv.readers = @ \ {g}]
  /\ gor' = [gor EXCEPT ![g].pc = "done"]
  /\ UNCHANGED <<heap, hcache, installs, hcs>>
  /\ UNCHANGED <<cacheVars, dialVars, restVars>>

\* no entry: the lock is released and netResolver.LookupSRV is called
LkMiss(g) ==
  /\ gor[g].pc = "rlocked"
  /\ gor[g].view.nil
  /\ mu' = [mu EXCEPT !.srv = releaseBeforeLookup(@, g)]
  /\ gor' = [gor EXCEPT ![g].pc = "resolving"]
  /\ UNCHANGED <<heap, hcache, scache, installs, hcs>>
  /\ UNCHANGED <<cacheVars, dialVars, restVars>>

\* the resolver answers
LkResolved(g, answer) ==
  /\ gor[g].pc = "resolving"
  /\ gor' = [gor EXCEPT ![g].pc = "install", ![g].view = newView(g, answer, gor[g].t)]
  /\ UNCHANGED <<mu, heap, hcache, scache, installs, hcs>>
  /\ UNCHANGED <<cacheVars, dialVars, restVars>>

\* Lock, the insert or overwrite of the entry, Unlock
LkInstall(g) ==
  /\ gor[g].pc = "install"
  /\ canLock(mu.srv)
  /\ scache' = storeView(scache, qName, gor[g].view)
  /\ installs' = Append(installs, g)
  /\ gor' = [gor EXCEPT ![g].pc = "populate"]
  /\ UNCHANGED <<mu, heap, hcache, hcs>>
  /\ UNCHANGED <<cacheVars, dialVars, restVars>>

\* populateHealthStore for the keys of the view, and the return of the view
LkPopulate(g) ==
  /\ gor[g].pc = "populate"
  /\ canLock(mu.health)
  /\ LET st == ensureAll(healthState, uniqueTargetKeys(gor[g].view.priorities), gor[g].t)
     IN  /\ heap' = st.heap
         /\ hcache' = st.hcache
         /\ hcs' = st.hcs
  /\ gor' = [gor EXCEPT ![g].pc = "done"]
  /\ UNCHANGED <<mu, scache, installs>>
  /\ UNCHANGED <<cacheVars, dialVars, restVars>>

\* dialIterate calls systemDialContext for s1:4000
DialBegin(g) ==
  /\ gor[g].pc = "idle"
  /\ gor' = [gor EXCEPT ![g].pc = "dialing"]
  /\ UNCHANGED <<mu, heap, hcache, scache, installs, hcs>>
  /\ UNCHANGED <<cacheVars, dialVars, restVars>>

\* the underlying dialer returns, and the clock is read
DialEnd(g, ok) ==
  /\ gor[g].pc = "dialing"
  /\ gor' = [gor EXCEPT ![g].pc = "record", ![g].ok = ok, ![g].t = now]
  /\ UNCHANGED <<mu, heap, hcache, scache, installs, hcs>>
  /\ UNCHANGED <<cacheVars, dialVars, restVars>>

\* setDialResult: Lock, the record is found or created, its counter is read
SdrLock(g) ==
  /\ gor[g].pc = "record"
  /\ canLock(mu.health)
  /\ mu' = [mu EXCEPT !.health.writers = @ \cup {g}]
  /\ LET st == ensure(healthState, dialKey, gor[g].t)
         ceh == st.hcache[dialKey]
     IN  /\ heap' = st.heap
         /\ hcache' = st.hcache
         /\ hcs' = st.hcs
         /\ gor' = [gor EXCEPT ![g].pc = "locked", ![g].ceh = ceh,
                               ![g].tmp = IF gor[g].ok THEN st.heap[ceh].goodDials
                                                       ELSE st.heap[ceh].failedDials]
  /\ UNCHANGED <<scache, installs>>
  /\ UNCHANGED <<cacheVars, dialVars, restVars>>

\* the counter and the veto are written, Unlock
SdrStore(g) ==
  /\ gor[g].pc = "locked"
  /\ heap' = [heap EXCEPT ![gor[g].ceh] =
                IF gor[g].ok
                  THEN [@ EXCEPT !.goodDials = gor[g].tmp + 1, !.nextDialAttempt = zeroTime,
                                 !.lastDialStatus = ""]
                  ELSE [@ EXCEPT !.failedDials = gor[g].tmp + 1,
                                 !.nextDialAttempt = gor[g].t + DialVetoDuration,
                                 !.lastDialStatus = "dial error"]]
  /\ mu' = [mu EXCEPT !.health.writers = @ \ {g}]
  /\ gor' = [gor EXCEPT ![g].pc = "done"]
  /\ UNCHANGED <<hcache, scache, installs, hcs>>
  /\ UNCHANGED <<cacheVars, dialVars, restVars>>

dialsOf(ceh) == heap[ceh].goodDials + heap[ceh].failedDials

\* bestTarget: RLock and the read of the record of s1:4000
RdRLock(g) ==
  /\ gor[g].pc = "idle"
  /\ canRLock(mu.health)
  /\ mu' = [mu EXCEPT !.health.readers = @ \cup {g}]
  /\ gor' = [gor EXCEPT ![g].pc = "reading",
                        ![g].ceh = IF dialKey \in DOMAIN hcache THEN hcache[dialKey] ELSE 0,
                        ![g].tmp = IF dialKey \in DOMAIN hcache THEN dialsOf(hcache[dialKey]) ELSE 0]
  /\ UNCHANGED <<heap, hcache, scache, installs, hcs>>
  /\ UNCHANGED <<cacheVars, dialVars, restVars>>

\* bestTarget returns: the deferred RUnlock
RdRUnlock(g) ==
  /\ gor[g].pc = "reading"
  /\ mu' = [mu EXCEPT !.health.readers = @ \ {g}]
  /\ gor' = [gor EXCEPT ![g].pc = "done"]
  /\ UNCHANGED <<heap, hcache, scache, installs, hcs>>
  /\ UNCHANGED <<cacheVars, dialVars, restVars>>

\* a prober that looks its record up in the cache by its key
proberRecordByKey(p) ==
  IF hcs[p].key \in DOMAIN hcache THEN hcache[hcs[p].key] ELSE hcs[p].ceh

\* the record a prober writes to: the ceh it was started with
proberRecord(p) == hcs[p].ceh

\* the cache holds another record under the key of the prober
replaced(p) == hcs[p].key \in DOMAIN hcache /\ hcache[hcs[p].key] # hcs[p].ceh

\* netResolver.LookupTXT returns: no TXT or an empty URL ends the prober
PTxtDone(p, found) ==
  /\ hcs[p].pc = "txt"
  /\ hcs' = [hcs EXCEPT ![p].pc = IF found THEN "seturl" ELSE "exited"]
  /\ UNCHANGED <<gor, mu, heap, hcache, scache, installs>>
  /\ UNCHANGED <<cacheVars, dialVars, restVars>>

\* the names under which the probers hold a lock
ProberNames == <<"P1", "P2", "P3", "P4">>

proberName(p) == ProberNames[p]

\* Lock, ceh.url = hcURL, expires := ceh.expires
PSetURL(p) ==
  /\ hcs[p].pc = "seturl"
  /\ canLock(mu.health)
  /\ mu' = [mu EXCEPT !.health.writers = @ \cup {proberName(p)}]
  /\ heap' = [heap EXCEPT ![proberRecord(p)].url = hcURL]
  /\ hcs' = [hcs EXCEPT ![p].pc = "urlset", ![p].expires = heap[proberRecord(p)].expires,
                        ![p].late = replaced(p)]
  /\ UNCHANGED <<gor, hcache, scache, installs>>
  /\ UNCHANGED <<cacheVars, dialVars, restVars>>

\* Unlock after a write of the prober: to the sleep of the loop, or the return
\* after a failed GET
PUnlock(p) ==
  /\ hcs[p].pc \in {"urlset", "checked", "failed"}
  /\ mu' = [mu EXCEPT !.health.writers = @ \ {proberName(p)}]
  /\ hcs' = [hcs EXCEPT ![p].pc = IF hcs[p].pc = "failed" THEN "exited" ELSE "sleep"]
  /\ UNCHANGED <<gor, heap, hcache, scache, installs>>
  /\ UNCHANGED <<cacheVars, dialVars, restVars>>

\* the sleep ends: the prober returns if expires is past, else calls hcClient.Get
PWake(p) ==
  /\ hcs[p].pc = "sleep"
  /\ hcs' = [hcs EXCEPT ![p].pc = IF probeExpired(hcs[p].expires, now) THEN "exited" ELSE "get"]
  /\ UNCHANGED <<gor, mu, heap, hcache, scache, installs>>
  /\ UNCHANGED <<cacheVars, dialVars, restVars>>

ConcGetOutcomes ==
  {transportError} \cup { r \in Responses : r.bodyRead /\ (r.bodyOk <=> r.status = StatusOK) }

\* the GET returns: Lock, the verdict is written
PGetDone(p, r) ==
  /\ hcs[p].pc = "get"
  /\ canLock(mu.health)
  /\ mu' = [mu EXCEPT !.health.writers = @ \cup {proberName(p)}]
  /\ heap' = [heap EXCEPT ![proberRecord(p)] =
                [probeRecord(@, r) EXCEPT !.lastHealthCheckStatus = r.kind]]
  /\ hcs' = [hcs EXCEPT ![p].pc = IF r.kind = "error" THEN "failed" ELSE "checked",
                        ![p].late = replaced(p)]
  /\ UNCHANGED <<gor, hcache, scache, installs>>
  /\ UNCHANGED <<cacheVars, dialVars, restVars>>

\* healthCache.clean and srvCache.clean, each under its exclusive lock
HealthSweep ==
  /\ canLock(mu.health)
  /\ \E key \in DOMAIN hcache : heap[hcache[key]].expires < now
  /\ hcache' = [key \in { k \in DOMAIN hcache : ~(heap[hcache[k]].expires < now) } |-> hcache[key]]
  /\ UNCHANGED <<gor, mu, heap, scache, installs, hcs>>
  /\ UNCHANGED <<cacheVars, dialVars, restVars>>

SrvSweep ==
  /\ canLock(mu.srv)
  /\ \E key \in DOMAIN scache : scache[key].expires < now
  /\ scache' = srvClean(scache, now)
  /\ UNCHANGED <<gor, mu, heap, hcache, installs, hcs>>
  /\ UNCHANGED <<cacheVars, dialVars, restVars>>

\* the goroutines that run at the same time, besides the probers and the cleaners
MaxCallers == 2

Scenarios == { started \in SUBSET Goroutines : Cardinality(started) = MaxCallers }

ConcInit ==
  /\ InitAnswer({<<>>}) /\ InitCache /\ InitDial /\ InitCallOf(defaultConfig)
  /\ \E started \in Scenarios : InitConcOf(started)

\* the clock, up to the first time a record made at the start can be swept
\* and made again
MaxConcTime == 5

ConcTick ==
  /\ now < MaxConcTime
  /\ now' = now + 1
  /\ UNCHANGED <<dns, srvStore, health, cesrv, bt, otherDials, vetoUntil>>
  /\ UNCHANGED <<dialVars, restVars, concVars>>

ConcNext ==
  \/ ConcTick
  \/ \E g \in Lookers : LkRLock(g)
  \/ \E g \in Lookers : LkHit(g)
  \/ \E g \in Lookers : LkMiss(g)
  \/ \E g \in Lookers, answer \in ConcAnswers : LkResolved(g, answer)
  \/ \E g \in Lookers : LkInstall(g)
  \/ \E g \in Lookers : LkPopulate(g)
  \/ \E g \in Dialers : DialBegin(g)
  \/ \E g \in Dialers, ok \in BOOLEAN : DialEnd(g, ok)
  \/ \E g \in Dialers : SdrLock(g)
  \/ \E g \in Dialers : SdrStore(g)
  \/ \E g \in Readers : RdRLock(g)
  \/ \E g \in Readers : RdRUnlock(g)
  \/ \E p \in 1..Len(hcs), found \in BOOLEAN : PTxtDone(p, found)
  \/ \E p \in 1..Len(hcs) : PSetURL(p)
  \/ \E p \in 1..Len(hcs) : PWake(p)
  \/ \E p \in 1..Len(hcs), r \in ConcGetOutcomes : PGetDone(p, r)
  \/ \E p \in 1..Len(hcs) : PUnlock(p)
  \/ HealthSweep
  \/ SrvSweep

ConcSpec == ConcInit /\ [][ConcNext]_vars

(***************************************************************************)
(* Properties of the concurrent callers.                                   *)
(***************************************************************************)
Returned(g) == gor[g].pc = "done"

\* a record that has not expired is the one record the cache holds for its
\* endpoint: another is made only after a sweep has deleted it
OneRecordPerEndpoint ==
  \A ceh \in 1..Len(heap) :
    ~(heap[ceh].expires < now) =>
       heap[ceh].key \in DOMAIN hcache /\ hcache[heap[ceh].key] = ceh

\* key has a record unless a record of it has expired
RecordKept(key) ==
  key \in DOMAIN hcache \/ \E p \in 1..Len(heap) : heap[p].key = key /\ heap[p].expires < now

\* C33: lookups of one uncached name that run at the same time each get a
\* view; the cache then holds one entry for the name, the view stored last,
\* and each endpoint of a returned view has one health record.
ConcurrentLookups ==
  /\ \A g \in Lookers : gor[g].pc \in {"install", "populate", "done"} => ~gor[g].view.nil
  /\ DOMAIN scache \subseteq {qName}
  /\ qName \in DOMAIN scache =>
       installs # <<>> /\ scache[qName].by = installs[Len(installs)]
  /\ (installs # <<>> /\ ~(gor[installs[Len(installs)]].view.expires < now)) =>
       qName \in DOMAIN scache
  /\ OneRecordPerEndpoint
  /\ \A g \in Lookers : (Returned(g) /\ gor[g].view.by = g) =>
       \A key \in uniqueTargetKeys(gor[g].view.priorities) : RecordKept(key)

\* both lookups missed, resolved and stored their view, and have returned
BothResolved ==
  /\ Len(installs) = Cardinality(Lookers)
  /\ \A g \in Lookers : Returned(g)
  /\ qName \in DOMAIN scache
  /\ dialKey \in DOMAIN hcache

holders(m) == m.writers \cup m.readers

\* C34: while a DNS lookup (SRV or TXT), a call of the underlying dialer or a
\* GET of a prober is in flight, the goroutine that made the call holds
\* neither the lock of the SRV cache nor that of the health cache.
NoLockAcrossCalls ==
  /\ \A g \in Goroutines : gor[g].pc \in {"resolving", "dialing"} =>
       g \notin holders(mu.srv) \cup holders(mu.health)
  /\ \A p \in 1..Len(hcs) : hcs[p].pc \in {"txt", "get"} =>
       proberName(p) \notin holders(mu.srv) \cup holders(mu.health)

\* a DNS lookup is in flight while another goroutine holds the lock of the
\* SRV cache
CallsInFlightUnderLock ==
  /\ \E g \in Lookers : gor[g].pc = "resolving"
  /\ holders(mu.srv) # {}

\* the setDialResult calls that have returned after using record ceh
recorded(ceh) == { g \in Dialers : Returned(g) /\ gor[g].ceh = ceh }

\* C35: setDialResult calls for one endpoint that run at the same time each
\* add one to goodDials + failedDials of the record, one record is made if
\* there was none, and a reader that holds the shared lock sees the counters
\* as the completed calls left them.
DialResultsCounted ==
  /\ \A ceh \in 1..Len(heap) : dialsOf(ceh) = Cardinality(recorded(ceh))
  /\ OneRecordPerEndpoint
  /\ \A r \in Readers : gor[r].pc = "reading" =>
       /\ mu.health.writers = {}
       /\ \A g \in Dialers : gor[g].pc # "locked"
       /\ gor[r].ceh # 0 => dialsOf(gor[r].ceh) = gor[r].tmp

\* two calls have been counted on one record
TwoDialsCounted == \E ceh \in 1..Len(heap) : dialsOf(ceh) = Cardinality(Dialers)

\* a reader holds the shared lock while a call waits to record its outcome
ReaderBeforeWriter ==
  /\ \E r \in Readers : gor[r].pc = "reading"
  /\ \E g \in Dialers : gor[g].pc = "record"

probeFields(ceh) == <<ceh.unHealthy, ceh.url, ceh.lastHealthCheckStatus>>

\* C40: the unhealthy flag, the probe URL and the probe status of a record
\* are changed only by a step of the prober started for that record, and a
\* record has one prober: the prober of a record that was swept never
\* changes the record made again under the same key.
ProberWritesOwnRecord ==
  [][ /\ \A ceh \in 1..Len(heap) :
           probeFields(heap'[ceh]) # probeFields(heap[ceh]) =>
             \E p \in 1..Len(hcs) : hcs[p].ceh = ceh /\ hcs'[p] # hcs[p]
      /\ \A ceh \in 1..Len(heap') :
           Cardinality({ p \in 1..Len(hcs') : hcs'[p].ceh = ceh }) = 1 ]_vars

\* a prober has written to its record after the record was swept and made
\* again under the same key
WroteAfterReplacement ==
  \E p \in 1..Len(hcs) : hcs[p].late /\ replaced(p) /\ heap[hcs[p].ceh].url = hcURL
====
